---- MODULE Spec2Model ----
(***************************************************************************)
(* Checkpoint resolution and lifecycle engine of the FinRisk HITL backend: *)
(* the definition catalog, the field schema validator, the resolver and    *)
(* the instance state machine, as implemented by                           *)
(* app/services/checkpoint_resolver.py and app/routers/checkpoints.py.     *)
(***************************************************************************)
EXTENDS Integers, Sequences, FiniteSets, TLC

VARIABLES
    tasks,        \* tasks table: task id -> row
    definitions,  \* checkpoint_definitions table: definition id -> row
    instances,    \* checkpoint_instances table (committed rows): instance id -> row
    clock,        \* the latest time any request has read from datetime.utcnow()
    txs           \* open resolve transactions, one per request worker

vars == <<tasks, definitions, instances, clock, txs>>

-----------------------------------------------------------------------------
(* Bounds of the model *)

MaxDefs == 2
MaxInstances == 2
MaxClock == 3
NumWorkers == 2

-----------------------------------------------------------------------------
(* Python values *)

\* Optional[...] columns and arguments: None is the empty tuple, a set value v is <<v>>
None == <<>>
Some(v) == <<v>>
IsNone(o) == o = <<>>
Get(o) == o[1]

\* A JSON value of a submitted payload, tagged with its Python type
Val(t, s, n, b, l) == [t |-> t, s |-> s, n |-> n, b |-> b, l |-> l]
PyNone == Val("none", "", 0, FALSE, <<>>)
PyStr(s) == Val("str", s, 0, FALSE, <<>>)
PyInt(n) == Val("int", "", n, FALSE, <<>>)
PyFloat(n) == Val("float", "", n, FALSE, <<>>)
PyBool(b) == Val("bool", "", 0, b, <<>>)
PyList(l) == Val("list", "", 0, FALSE, l)
PyDict(l) == Val("dict", "", 0, FALSE, l)

RECURSIVE LStrip(_)
LStrip(s) ==
    IF Len(s) > 0 /\ SubSeq(s, 1, 1) = " " THEN LStrip(SubSeq(s, 2, Len(s))) ELSE s

RECURSIVE RStrip(_)
RStrip(s) ==
    IF Len(s) > 0 /\ SubSeq(s, Len(s), Len(s)) = " "
    THEN RStrip(SubSeq(s, 1, Len(s) - 1))
    ELSE s

\* str.strip()
Strip(s) == RStrip(LStrip(s))

\* str(x) of an int or of a float with an integral value
FormatNumber(v) == IF v.t = "float" THEN ToString(v.n) \o ".0" ELSE ToString(v.n)

\* A submitted payload is a dict in insertion order: a sequence of [k, v] entries
DataKeys(data) == {data[i].k : i \in 1..Len(data)}
DataGet(data, key) ==
    IF key \in DataKeys(data)
    THEN (CHOOSE e \in {data[i] : i \in 1..Len(data)} : e.k = key).v
    ELSE PyNone

RECURSIVE Concat(_)
Concat(seqs) == IF seqs = <<>> THEN <<>> ELSE Head(seqs) \o Concat(Tail(seqs))

-----------------------------------------------------------------------------
(* Field schema validator *)

ValidationIssue(key, message) == [key |-> key, message |-> message]

\* A field of a field_schema: FieldDefinition.model_dump(exclude_none=True);
\* options are the option values, min and max are Optional numbers
Field(key, type, required, options, min, max) ==
    [key |-> key, type |-> type, required |-> required,
     options |-> options, min |-> min, max |-> max]

_is_empty_value(value) ==
    IF value.t = "none" THEN TRUE
    ELSE IF value.t = "str" THEN Strip(value.s) = ""
    ELSE IF value.t \in {"list", "dict"} THEN Len(value.l) = 0
    ELSE FALSE

IsNumeric(value) == value.t \in {"int", "float"}

_validate_field_type(field, key, field_type, value) ==
    LET option_values == {field.options[i] : i \in 1..Len(field.options)}
        allStr == \A i \in 1..Len(value.l) : value.l[i].t = "str"
        unknown == {i \in 1..Len(value.l) : value.l[i].s \notin option_values}
    IN
    IF field_type \in {"text", "textarea"} THEN
        IF value.t # "str"
        THEN <<ValidationIssue(key, "Expected a string")>>
        ELSE <<>>
    ELSE IF field_type \in {"select", "radio"} THEN
        IF value.t # "str"
        THEN <<ValidationIssue(key, "Expected a string option")>>
        ELSE IF option_values # {} /\ value.s \notin option_values
        THEN <<ValidationIssue(key, "Value is not in allowed options")>>
        ELSE <<>>
    ELSE IF field_type \in {"multi_select", "chips"} THEN
        IF value.t # "list" \/ ~allStr
        THEN <<ValidationIssue(key, "Expected an array of strings")>>
        ELSE IF option_values # {} /\ unknown # {}
        THEN <<ValidationIssue(key, "Contains values not in allowed options")>>
        ELSE <<>>
    ELSE IF field_type = "checkbox" THEN
        IF value.t # "bool"
        THEN <<ValidationIssue(key, "Expected a boolean")>>
        ELSE <<>>
    ELSE IF field_type \in {"number", "range"} THEN
        IF ~IsNumeric(value)
        THEN <<ValidationIssue(key, "Expected a numeric value")>>
        ELSE
            (IF ~IsNone(field.min) /\ value.n < Get(field.min).n
             THEN <<ValidationIssue(key, "Value must be >= " \o FormatNumber(Get(field.min)))>>
             ELSE <<>>)
            \o
            (IF ~IsNone(field.max) /\ value.n > Get(field.max).n
             THEN <<ValidationIssue(key, "Value must be <= " \o FormatNumber(Get(field.max)))>>
             ELSE <<>>)
    ELSE <<ValidationIssue(key, "Unsupported field type '" \o field_type \o "'")>>

ValidateField(field, data) ==
    LET key == Strip(field.key)
        field_type == Strip(field.type)
        value == DataGet(data, key)
    IN
    IF key = "" THEN <<>>
    ELSE IF field.required /\ _is_empty_value(value)
    THEN <<ValidationIssue(key, "This field is required")>>
    ELSE IF value.t = "none" THEN <<>>
    ELSE _validate_field_type(field, key, field_type, value)

validate_submission(field_schema, data) ==
    LET expected_keys ==
            {field_schema[i].key : i \in {j \in 1..Len(field_schema) :
                                            Strip(field_schema[j].key) # ""}}
        unexpected ==
            [i \in 1..Len(data) |->
                IF data[i].k \notin expected_keys
                THEN <<ValidationIssue(data[i].k, "Unexpected field")>>
                ELSE <<>>]
        checked == [i \in 1..Len(field_schema) |-> ValidateField(field_schema[i], data)]
    IN Concat(unexpected) \o Concat(checked)

\* "; ".join(f"{issue.key}: {issue.message}" for issue in issues)
RECURSIVE JoinIssues(_)
JoinIssues(issues) ==
    IF issues = <<>> THEN ""
    ELSE IF Len(issues) = 1 THEN issues[1].key \o ": " \o issues[1].message
    ELSE issues[1].key \o ": " \o issues[1].message \o "; " \o JoinIssues(Tail(issues))

-----------------------------------------------------------------------------
(* Enumerations and rows *)

ModeType == {"baseline", "hitl_r", "hitl_g", "hitl_full"}
CheckpointPipelinePosition == {"after_retrieval", "after_generation", "post_generation"}
CheckpointState ==
    {"pending", "offered", "active", "submitted", "collapsed", "skipped", "failed", "timed_out"}

\* Ids are uuid4 strings in the code; the model numbers them in creation order
Workers == 1..NumWorkers

\* ORDER BY control_type ASC compares strings; the model ranks the control types it uses
ControlTypeOrder == <<"note", "summary_editor">>
ControlTypeRank(ct) == CHOOSE i \in 1..Len(ControlTypeOrder) : ControlTypeOrder[i] = ct

\* The tasks of a study session in its second phase (routers/sessions.py creates one
\* task per phase, with the phase's mode): a baseline task and a hitl_r task
Task(id, mode) == [id |-> id, mode |-> mode]
StudyTasks == <<Task(1, "baseline"), Task(2, "hitl_r")>>

\* Request arguments: the ids in use and one id that names nothing
TaskIds == 1..(Len(StudyTasks) + 1)
DefinitionIds == 1..(MaxDefs + 1)
InstanceIds == 1..(MaxInstances + 1)

CheckpointInstance(id, task_id, definition_id, control_type, state, offered_at) ==
    [id |-> id, task_id |-> task_id, definition_id |-> definition_id,
     control_type |-> control_type, state |-> state,
     payload |-> None, submit_result |-> None, attempt_count |-> 0,
     last_error |-> None, failed_at |-> None, offered_at |-> offered_at,
     submitted_at |-> None]

\* routers/checkpoints.py _normalize_modes
_normalize_modes(modes) ==
    LET normalized == SelectSeq([i \in 1..Len(modes) |-> Strip(modes[i])],
                                LAMBDA m : m # "")
    IN IF modes = <<>> THEN <<"*">>
       ELSE IF normalized = <<>> THEN <<"*">> ELSE normalized

\* A filter that knows no wildcard
_mode_is_applicable_no_wildcard(definition, mode_value) ==
    \E i \in 1..Len(definition.applicable_modes) :
        definition.applicable_modes[i] = mode_value

\* services/checkpoint_resolver.py _mode_is_applicable
_mode_is_applicable(definition, mode_value) ==
    LET modes == definition.applicable_modes
    IN \/ \E i \in 1..Len(modes) : modes[i] = "*"
       \/ \E i \in 1..Len(modes) : modes[i] = mode_value

-----------------------------------------------------------------------------
(* Requests the model issues *)

EditedTextSchema == <<Field("edited_text", "textarea", TRUE, <<>>, None, None)>>
NoteSchema == <<Field("note", "text", FALSE, <<>>, None, None)>>
PaddedKeySchema == <<Field(" note ", "text", TRUE, <<>>, None, None)>>

CreateRequest(control_type, label, field_schema, pipeline_position, sort_order, applicable_modes, required, max_retries) ==
    [control_type |-> control_type, label |-> label, field_schema |-> field_schema,
     pipeline_position |-> pipeline_position, sort_order |-> sort_order,
     applicable_modes |-> applicable_modes, required |-> required,
     timeout_seconds |-> None, max_retries |-> max_retries, enabled |-> TRUE]

\* CheckpointDefinitionCreateRequest bodies
CreateRequests ==
    << CreateRequest("summary_editor", "Summary Editor", EditedTextSchema,
                     "after_generation", 20, <<>>, TRUE, 2),
       CreateRequest("note", "Note", NoteSchema,
                     "after_generation", 20, <<"hitl_r">>, FALSE, 1) >>

\* CheckpointDefinitionUpdateRequest bodies: a record of the fields that are set
UpdateRequests ==
    << [field_schema |-> Some(PaddedKeySchema), applicable_modes |-> Some(<<" ">>),
        sort_order |-> Some(10), max_retries |-> Some(0)] >>

Entry(k, v) == [k |-> k, v |-> v]

\* CheckpointSubmitRequest.data
SubmitData ==
    << <<>>,
       <<Entry("edited_text", PyStr("Revised"))>>,
       <<Entry(" note ", PyStr("ok"))>> >>

-----------------------------------------------------------------------------
(* Responses *)

\* What a handler sends back: the status code, the error detail, and the body. The body
\* of a resolve names the task and the position (ResolvedCheckpointsResponse) and lists
\* the instances; the body of a lifecycle request is one instance; a 422 carries the
\* issues and the retry signal.
Response(status, detail, task, pos, issues, checkpoints) ==
    [status |-> status, detail |-> detail, task |-> task, pos |-> pos,
     issues |-> issues, checkpoints |-> checkpoints,
     attempt_count |-> 0, max_retries |-> 0, retry_available |-> FALSE]

Plain(status, detail) == Response(status, detail, 0, "", <<>>, <<>>)

\* routers/checkpoints.py _raise_value_error: "not found" messages are 404, the rest 400
NotFoundMessages ==
    {"Task not found", "Checkpoint instance not found", "Checkpoint definition not found"}
_raise_value_error(message) == IF message \in NotFoundMessages THEN 404 ELSE 400

ErrorResponse(message) == Plain(_raise_value_error(message), message)

\* routers/checkpoints.py _to_instance_response
_to_instance_response(definition, instance) ==
    [id |-> instance.id, task_id |-> instance.task_id,
     definition_id |-> instance.definition_id, control_type |-> instance.control_type,
     label |-> definition.label, state |-> instance.state,
     field_schema |-> definition.field_schema, payload |-> instance.payload,
     submit_result |-> instance.submit_result, required |-> definition.required,
     timeout_seconds |-> definition.timeout_seconds,
     max_retries |-> definition.max_retries, attempt_count |-> instance.attempt_count,
     last_error |-> instance.last_error, offered_at |-> instance.offered_at,
     submitted_at |-> instance.submitted_at]

InstanceResponse(definition, instance) ==
    Response(200, "", 0, "", <<>>, <<_to_instance_response(definition, instance)>>)

\* What serving a request does: the response, and the tables and clock it leaves
Served(resp, defs, insts, time) ==
    [response |-> resp, definitions |-> defs, instances |-> insts, clock |-> time]

-----------------------------------------------------------------------------
(* Initial state: a study session in its second phase, an empty checkpoint catalog, *)
(* no open transaction                                                            *)

IdleTx ==
    [pc |-> "idle", task |-> 0, pos |-> "", mode |-> "", defs |-> <<>>, idx |-> 0,
     now |-> 0, pending |-> <<>>, resolved |-> <<>>]

Init ==
    /\ tasks = StudyTasks
    /\ definitions = <<>>
    /\ instances = <<>>
    /\ clock = 0
    /\ txs = [w \in Workers |-> IdleTx]

\* datetime.utcnow(): a time later than every time read before. A handler that stores
\* the time it read moves the clock to it.
Now == clock + 1

\* A table is a function from the ids in use to rows; Insert adds a row under a new id
Insert(table, id, row) ==
    [i \in DOMAIN table \cup {id} |-> IF i = id THEN row ELSE table[i]]

\* The uuid of a new row: an id no row uses
FreshId(used) == CHOOSE i \in 1..(Cardinality(used) + 1) :
                    i \notin used /\ \A j \in 1..(i - 1) : j \in used

-----------------------------------------------------------------------------
(* Definition management (routers/checkpoints.py) *)

\* float(x) of a number: FieldDefinition declares min and max as float | None, and
\* pydantic turns the int of a request body into the float of the same value
ToFloat(value) == IF value.t = "int" THEN PyFloat(value.n) ELSE value

\* _field_schema_to_json: the dump of each FieldDefinition the request was parsed into
_field_schema_to_json(field_schema) ==
    [i \in 1..Len(field_schema) |->
        [field_schema[i] EXCEPT
            !.min = IF IsNone(@) THEN None ELSE Some(ToFloat(Get(@))),
            !.max = IF IsNone(@) THEN None ELSE Some(ToFloat(Get(@)))]]

ControlTypeTaken(defs, control_type) ==
    \E d \in DOMAIN defs : defs[d].control_type = control_type

\* The row create_checkpoint_definition builds from its payload
NewDefinition(id, payload) ==
    [id |-> id,
     control_type |-> payload.control_type,
     label |-> payload.label,
     field_schema |-> _field_schema_to_json(payload.field_schema),
     pipeline_position |-> payload.pipeline_position,
     sort_order |-> payload.sort_order,
     applicable_modes |-> _normalize_modes(payload.applicable_modes),
     required |-> payload.required,
     timeout_seconds |-> payload.timeout_seconds,
     max_retries |-> payload.max_retries,
     enabled |-> payload.enabled]

\* POST /api/checkpoints/definitions
create_checkpoint_definition(payload) ==
    IF ControlTypeTaken(definitions, payload.control_type) THEN
        Served(Plain(409, "Checkpoint control_type '" \o payload.control_type
                              \o "' already exists"),
               definitions, instances, clock)
    ELSE
        LET id == FreshId(DOMAIN definitions)
        IN Served(Plain(201, ""),
                  Insert(definitions, id, NewDefinition(id, payload)),
                  instances, clock)

Provided(payload, name) == name \in DOMAIN payload

\* An update that replaces the row: a field the request leaves out takes the default
\* of its column
_update_definition_from_payload_replace(definition, payload) ==
    [definition EXCEPT
        !.field_schema =
            IF Provided(payload, "field_schema") /\ ~IsNone(payload.field_schema)
            THEN _field_schema_to_json(Get(payload.field_schema)) ELSE <<>>,
        !.applicable_modes =
            IF Provided(payload, "applicable_modes") /\ ~IsNone(payload.applicable_modes)
            THEN _normalize_modes(Get(payload.applicable_modes)) ELSE <<"*">>,
        !.label =
            IF Provided(payload, "label") /\ ~IsNone(payload.label)
               /\ Get(payload.label) # ""
            THEN Get(payload.label) ELSE @,
        !.pipeline_position =
            IF Provided(payload, "pipeline_position") /\ ~IsNone(payload.pipeline_position)
            THEN Get(payload.pipeline_position) ELSE @,
        !.sort_order =
            IF Provided(payload, "sort_order") /\ ~IsNone(payload.sort_order)
            THEN Get(payload.sort_order) ELSE 0,
        !.required =
            IF Provided(payload, "required") /\ ~IsNone(payload.required)
            THEN Get(payload.required) ELSE FALSE,
        !.timeout_seconds =
            IF Provided(payload, "timeout_seconds") THEN payload.timeout_seconds ELSE None,
        !.max_retries =
            IF Provided(payload, "max_retries") /\ ~IsNone(payload.max_retries)
            THEN Get(payload.max_retries) ELSE 2,
        !.enabled =
            IF Provided(payload, "enabled") /\ ~IsNone(payload.enabled)
            THEN Get(payload.enabled) ELSE TRUE]

_update_definition_from_payload(definition, payload) ==
    [definition EXCEPT
        !.field_schema =
            IF Provided(payload, "field_schema") /\ ~IsNone(payload.field_schema)
            THEN _field_schema_to_json(Get(payload.field_schema)) ELSE @,
        !.applicable_modes =
            IF Provided(payload, "applicable_modes") /\ ~IsNone(payload.applicable_modes)
            THEN _normalize_modes(Get(payload.applicable_modes)) ELSE @,
        !.label =
            IF Provided(payload, "label") /\ ~IsNone(payload.label)
               /\ Get(payload.label) # ""
            THEN Get(payload.label) ELSE @,
        !.pipeline_position =
            IF Provided(payload, "pipeline_position") /\ ~IsNone(payload.pipeline_position)
            THEN Get(payload.pipeline_position) ELSE @,
        !.sort_order =
            IF Provided(payload, "sort_order") /\ ~IsNone(payload.sort_order)
            THEN Get(payload.sort_order) ELSE @,
        !.required =
            IF Provided(payload, "required") /\ ~IsNone(payload.required)
            THEN Get(payload.required) ELSE @,
        !.timeout_seconds =
            IF Provided(payload, "timeout_seconds") THEN payload.timeout_seconds ELSE @,
        !.max_retries =
            IF Provided(payload, "max_retries") /\ ~IsNone(payload.max_retries)
            THEN Get(payload.max_retries) ELSE @,
        !.enabled =
            IF Provided(payload, "enabled") /\ ~IsNone(payload.enabled)
            THEN Get(payload.enabled) ELSE @]

DefinitionNotFound ==
    Served(Plain(404, "Checkpoint definition not found"), definitions, instances, clock)

\* PUT /api/checkpoints/definitions/{definition_id}
update_checkpoint_definition(definition_id, payload) ==
    IF definition_id \notin DOMAIN definitions THEN DefinitionNotFound
    ELSE Served(Plain(200, ""),
                [definitions EXCEPT ![definition_id] =
                    _update_definition_from_payload(@, payload)],
                instances, clock)

\* POST /api/checkpoints/definitions/{definition_id}/toggle
toggle_checkpoint_definition(definition_id, enabled) ==
    IF definition_id \notin DOMAIN definitions THEN DefinitionNotFound
    ELSE Served(Plain(200, ""),
                [definitions EXCEPT ![definition_id].enabled = enabled],
                instances, clock)

\* A delete that removes the row
delete_checkpoint_definition_hard(definition_id) ==
    IF definition_id \notin DOMAIN definitions THEN DefinitionNotFound
    ELSE Served(Plain(200, ""),
                [d \in DOMAIN definitions \ {definition_id} |-> definitions[d]],
                instances, clock)

\* DELETE /api/checkpoints/definitions/{definition_id}
delete_checkpoint_definition(definition_id) ==
    IF definition_id \notin DOMAIN definitions THEN DefinitionNotFound
    ELSE Served(Plain(200, ""),
                [definitions EXCEPT ![definition_id].enabled = FALSE],
                instances, clock)

-----------------------------------------------------------------------------
(* Checkpoint resolver (services/checkpoint_resolver.py) *)

\* ORDER BY control_type ASC alone
DefinitionBefore_by_control_type(a, b) ==
    ControlTypeRank(a.control_type) < ControlTypeRank(b.control_type)

\* ORDER BY sort_order ASC, control_type ASC
DefinitionBefore(a, b) ==
    \/ a.sort_order < b.sort_order
    \/ /\ a.sort_order = b.sort_order
       /\ ControlTypeRank(a.control_type) < ControlTypeRank(b.control_type)

RECURSIVE SortDefinitions(_)
SortDefinitions(rows) ==
    IF rows = {} THEN <<>>
    ELSE LET first == CHOOSE a \in rows : \A b \in rows \ {a} : DefinitionBefore(a, b)
         IN <<first>> \o SortDefinitions(rows \ {first})

\* The definitions query of resolve_checkpoints_for_task
SelectDefinitions(defs, pipeline_position) ==
    SortDefinitions({defs[d] : d \in {e \in DOMAIN defs :
                        /\ defs[e].enabled
                        /\ defs[e].pipeline_position = pipeline_position}})

\* The table without its unique constraint
UniqueViolation_dropped(table, row) == FALSE

\* UniqueConstraint("task_id", "definition_id") of checkpoint_instances
UniqueViolation(table, row) ==
    \E i \in DOMAIN table :
        /\ table[i].task_id = row.task_id
        /\ table[i].definition_id = row.definition_id

\* A loop that leaves a new instance in the default state of the column
ResolveDefinition_default_state(view, used, task_id, definition, now) ==
    LET found == {i \in DOMAIN view :
                    /\ view[i].task_id = task_id
                    /\ view[i].definition_id = definition.id}
    IN IF found = {} THEN
           LET id == FreshId(used)
           IN [id |-> id, write |-> "insert",
               row |-> CheckpointInstance(id, task_id, definition.id,
                                          definition.control_type, "pending", Some(now))]
       ELSE
           LET id == CHOOSE i \in found : \A j \in found : i <= j
               instance == view[id]
           IN IF instance.state = "pending"
              THEN [id |-> id, write |-> "update",
                    row |-> [instance EXCEPT
                                !.state = "offered",
                                !.offered_at = IF IsNone(@) THEN Some(now) ELSE @]]
              ELSE [id |-> id, write |-> "none", row |-> instance]

\* A loop that offers again every instance it meets
ResolveDefinition_reoffers(view, used, task_id, definition, now) ==
    LET found == {i \in DOMAIN view :
                    /\ view[i].task_id = task_id
                    /\ view[i].definition_id = definition.id}
    IN IF found = {} THEN
           LET id == FreshId(used)
           IN [id |-> id, write |-> "insert",
               row |-> CheckpointInstance(id, task_id, definition.id,
                                          definition.control_type, "offered", Some(now))]
       ELSE
           LET id == CHOOSE i \in found : \A j \in found : i <= j
               instance == view[id]
           IN [id |-> id, write |-> "update",
               row |-> [instance EXCEPT
                           !.state = "offered",
                           !.offered_at = IF IsNone(@) THEN Some(now) ELSE @]]

\* A loop that stamps offered_at on every instance it meets
ResolveDefinition_restamps(view, used, task_id, definition, now) ==
    LET found == {i \in DOMAIN view :
                    /\ view[i].task_id = task_id
                    /\ view[i].definition_id = definition.id}
    IN IF found = {} THEN
           LET id == FreshId(used)
           IN [id |-> id, write |-> "insert",
               row |-> CheckpointInstance(id, task_id, definition.id,
                                          definition.control_type, "offered", Some(now))]
       ELSE
           LET id == CHOOSE i \in found : \A j \in found : i <= j
           IN [id |-> id, write |-> "update",
               row |-> [view[id] EXCEPT !.offered_at = Some(now)]]

\* A resolve that names a new instance after the label of its definition
ResolveDefinition_copies_label(view, used, task_id, definition, now) ==
    LET found == {i \in DOMAIN view :
                    /\ view[i].task_id = task_id
                    /\ view[i].definition_id = definition.id}
    IN IF found = {} THEN
           LET id == FreshId(used)
           IN [id |-> id, write |-> "insert",
               row |-> CheckpointInstance(id, task_id, definition.id,
                                          definition.label, "offered", Some(now))]
       ELSE
           LET id == CHOOSE i \in found : \A j \in found : i <= j
               instance == view[id]
           IN IF instance.state = "pending"
              THEN [id |-> id, write |-> "update",
                    row |-> [instance EXCEPT
                                !.state = "offered",
                                !.offered_at = IF IsNone(@) THEN Some(now) ELSE @]]
              ELSE [id |-> id, write |-> "none", row |-> instance]

\* A promotion of a pending instance that stamps offered_at whether it is set or not
ResolveDefinition_promote_overwrites(view, used, task_id, definition, now) ==
    LET found == {i \in DOMAIN view :
                    /\ view[i].task_id = task_id
                    /\ view[i].definition_id = definition.id}
    IN IF found = {} THEN
           LET id == FreshId(used)
           IN [id |-> id, write |-> "insert",
               row |-> CheckpointInstance(id, task_id, definition.id,
                                          definition.control_type, "offered", Some(now))]
       ELSE
           LET id == CHOOSE i \in found : \A j \in found : i <= j
               instance == view[id]
           IN IF instance.state = "pending"
              THEN [id |-> id, write |-> "update",
                    row |-> [instance EXCEPT !.state = "offered",
                                             !.offered_at = Some(now)]]
              ELSE [id |-> id, write |-> "none", row |-> instance]

\* One iteration of the loop of resolve_checkpoints_for_task, for a definition that
\* passed the mode filter: the instance it yields and what it writes
ResolveDefinition(view, used, task_id, definition, now) ==
    LET found == {i \in DOMAIN view :
                    /\ view[i].task_id = task_id
                    /\ view[i].definition_id = definition.id}
    IN IF found = {} THEN
           LET id == FreshId(used)
           IN [id |-> id, write |-> "insert",
               row |-> CheckpointInstance(id, task_id, definition.id,
                                          definition.control_type, "offered", Some(now))]
       ELSE
           LET id == CHOOSE i \in found : \A j \in found : i <= j
               instance == view[id]
           IN IF instance.state = "pending"
              THEN [id |-> id, write |-> "update",
                    row |-> [instance EXCEPT
                                !.state = "offered",
                                !.offered_at = IF IsNone(@) THEN Some(now) ELSE @]]
              ELSE [id |-> id, write |-> "none", row |-> instance]

\* The whole loop, run in one transaction over the table `view`
RECURSIVE ResolveAll(_, _, _, _, _)
ResolveAll(view, task_id, mode_value, defs, now) ==
    IF defs = <<>> THEN [view |-> view, resolved |-> <<>>]
    ELSE IF ~_mode_is_applicable(Head(defs), mode_value)
    THEN ResolveAll(view, task_id, mode_value, Tail(defs), now)
    ELSE LET r == ResolveDefinition(view, DOMAIN view, task_id, Head(defs), now)
             rest == ResolveAll(Insert(view, r.id, r.row), task_id, mode_value,
                                Tail(defs), now)
         IN [view |-> rest.view,
             resolved |-> <<[definition |-> Head(defs), instance_id |-> r.id]>>
                          \o rest.resolved]

ResolvedCheckpoints(resolved, view) ==
    [k \in 1..Len(resolved) |->
        _to_instance_response(resolved[k].definition, view[resolved[k].instance_id])]

\* The database a session reads and writes
Db == [tasks |-> tasks, definitions |-> definitions, instances |-> instances,
       clock |-> clock]

\* A resolve that returns nothing for a task it does not know
resolve_checkpoints_for_task_unknown_is_empty(db, task_id, pipeline_position) ==
    IF task_id \notin DOMAIN db.tasks
    THEN [error |-> "", resolved |-> <<>>, db |-> db]
    ELSE LET r == ResolveAll(db.instances, task_id, db.tasks[task_id].mode,
                             SelectDefinitions(db.definitions, pipeline_position),
                             db.clock + 1)
         IN [error |-> "", resolved |-> r.resolved,
             db |-> [db EXCEPT !.instances = r.view,
                               !.clock = IF r.view # db.instances THEN @ + 1 ELSE @]]

\* resolve_checkpoints_for_task(db, task_id, pipeline_position), run without
\* interleaving: the error it raises ("" for none), the pairs it returns, and the
\* database it leaves
resolve_checkpoints_for_task(db, task_id, pipeline_position) ==
    IF task_id \notin DOMAIN db.tasks
    THEN [error |-> "Task not found", resolved |-> <<>>, db |-> db]
    ELSE LET r == ResolveAll(db.instances, task_id, db.tasks[task_id].mode,
                             SelectDefinitions(db.definitions, pipeline_position),
                             db.clock + 1)
         IN [error |-> "", resolved |-> r.resolved,
             db |-> [db EXCEPT !.instances = r.view,
                               !.clock = IF r.view # db.instances THEN @ + 1 ELSE @]]

\* GET /api/tasks/{task_id}/checkpoints
resolve_task_checkpoints(task_id, pipeline_position) ==
    LET r == resolve_checkpoints_for_task(Db, task_id, pipeline_position)
    IN IF r.error # ""
       THEN Served(ErrorResponse(r.error), definitions, instances, clock)
       ELSE Served(Response(200, "", task_id, pipeline_position, <<>>,
                            ResolvedCheckpoints(r.resolved, r.db.instances)),
                   definitions, r.db.instances, r.db.clock)

\* A lookup that does not ask whose the instance is
get_checkpoint_instance_any_task(db, task_id, instance_id) ==
    IF instance_id \notin DOMAIN db.instances
    THEN "Checkpoint instance not found"
    ELSE IF db.instances[instance_id].definition_id \notin DOMAIN db.definitions
    THEN "Checkpoint definition not found"
    ELSE ""

\* get_checkpoint_instance(db, task_id, instance_id): the error it raises, "" when it
\* returns the definition and the instance
get_checkpoint_instance(db, task_id, instance_id) ==
    IF ~(/\ instance_id \in DOMAIN db.instances
         /\ db.instances[instance_id].task_id = task_id)
    THEN "Checkpoint instance not found"
    ELSE IF db.instances[instance_id].definition_id \notin DOMAIN db.definitions
    THEN "Checkpoint definition not found"
    ELSE ""

\* The lookup every instance handler starts with, on the database as it is
LookupError(task_id, instance_id) == get_checkpoint_instance(Db, task_id, instance_id)

Failed(message) == Served(ErrorResponse(message), definitions, instances, clock)

\* GET /api/tasks/{task_id}/checkpoints/{instance_id}
get_task_checkpoint_instance(task_id, instance_id) ==
    IF LookupError(task_id, instance_id) # ""
    THEN Failed(LookupError(task_id, instance_id))
    ELSE Served(InstanceResponse(definitions[instances[instance_id].definition_id],
                                 instances[instance_id]),
                definitions, instances, clock)

-----------------------------------------------------------------------------
(* Instance lifecycle (services/checkpoint_resolver.py) *)

\* A submit that records a rejected payload as the result
submit_checkpoint_instance_stores_rejected(definition, instance, data, now) ==
    LET issues == validate_submission(definition.field_schema, data)
    IN IF issues # <<>>
       THEN [instance EXCEPT !.attempt_count = @ + 1,
                             !.last_error = Some(JoinIssues(issues)),
                             !.submit_result = Some(data),
                             !.state = "failed",
                             !.failed_at = Some(now)]
       ELSE [instance EXCEPT !.submit_result = Some(data),
                             !.state = "submitted",
                             !.submitted_at = Some(now),
                             !.last_error = None]

\* A submit that leaves the last error in place when it accepts
submit_checkpoint_instance_keeps_error(definition, instance, data, now) ==
    LET issues == validate_submission(definition.field_schema, data)
    IN IF issues # <<>>
       THEN [instance EXCEPT !.attempt_count = @ + 1,
                             !.last_error = Some(JoinIssues(issues)),
                             !.state = "failed",
                             !.failed_at = Some(now)]
       ELSE [instance EXCEPT !.submit_result = Some(data),
                             !.state = "submitted",
                             !.submitted_at = Some(now)]

\* A submit that counts an accepted submission as an attempt as well
submit_checkpoint_instance_counts_accepted(definition, instance, data, now) ==
    LET issues == validate_submission(definition.field_schema, data)
    IN IF issues # <<>>
       THEN [instance EXCEPT !.attempt_count = @ + 1,
                             !.last_error = Some(JoinIssues(issues)),
                             !.state = "failed",
                             !.failed_at = Some(now)]
       ELSE [instance EXCEPT !.attempt_count = @ + 1,
                             !.submit_result = Some(data),
                             !.state = "submitted",
                             !.submitted_at = Some(now),
                             !.last_error = None]

\* A submit that accepts the data without validating it
submit_checkpoint_instance_unvalidated(definition, instance, data, now) ==
    [instance EXCEPT !.submit_result = Some(data),
                     !.state = "submitted",
                     !.submitted_at = Some(now),
                     !.last_error = None]

\* A submit that takes data only for an instance that is on offer
submit_checkpoint_instance_offered_only(definition, instance, data, now) ==
    LET issues == validate_submission(definition.field_schema, data)
    IN IF instance.state # "offered" THEN instance
       ELSE IF issues # <<>>
       THEN [instance EXCEPT !.attempt_count = @ + 1,
                             !.last_error = Some(JoinIssues(issues)),
                             !.state = "failed",
                             !.failed_at = Some(now)]
       ELSE [instance EXCEPT !.submit_result = Some(data),
                             !.state = "submitted",
                             !.submitted_at = Some(now),
                             !.last_error = None]

\* submit_checkpoint_instance, after the lookup
submit_checkpoint_instance(definition, instance, data, now) ==
    LET issues == validate_submission(definition.field_schema, data)
    IN IF issues # <<>>
       THEN [instance EXCEPT !.attempt_count = @ + 1,
                             !.last_error = Some(JoinIssues(issues)),
                             !.state = "failed",
                             !.failed_at = Some(now)]
       ELSE [instance EXCEPT !.submit_result = Some(data),
                             !.state = "submitted",
                             !.submitted_at = Some(now),
                             !.last_error = None]

\* A skip that looks at `required` only while the instance is open
skip_checkpoint_instance_open_only(definition, instance) ==
    IF definition.required /\ instance.state \in {"pending", "offered"}
    THEN [error |-> "Required checkpoints cannot be skipped", instance |-> instance]
    ELSE [error |-> "",
          instance |-> [instance EXCEPT !.state = "skipped", !.last_error = None]]

\* A skip that wipes the record of the failure
skip_checkpoint_instance_clears_failure(definition, instance) ==
    IF definition.required
    THEN [error |-> "Required checkpoints cannot be skipped", instance |-> instance]
    ELSE [error |-> "",
          instance |-> [instance EXCEPT !.state = "skipped", !.last_error = None,
                                        !.failed_at = None]]

\* skip_checkpoint_instance, after the lookup: the error raised ("" for none) and the row
skip_checkpoint_instance(definition, instance) ==
    IF definition.required
    THEN [error |-> "Required checkpoints cannot be skipped", instance |-> instance]
    ELSE [error |-> "",
          instance |-> [instance EXCEPT !.state = "skipped", !.last_error = None]]

\* A retry that allows one attempt too many
retry_checkpoint_instance_off_by_one(definition, instance, now) ==
    IF instance.state \notin {"failed", "timed_out", "skipped"}
    THEN [error |-> "Only failed, timed out, or skipped checkpoints can be retried",
          instance |-> instance]
    ELSE IF instance.attempt_count > definition.max_retries
    THEN [error |-> "Retry limit reached", instance |-> instance]
    ELSE [error |-> "",
          instance |-> [instance EXCEPT !.state = "offered",
                                        !.last_error = None,
                                        !.failed_at = None,
                                        !.offered_at = Some(now)]]

\* A retry that starts the count again
retry_checkpoint_instance_resets(definition, instance, now) ==
    IF instance.state \notin {"failed", "timed_out", "skipped"}
    THEN [error |-> "Only failed, timed out, or skipped checkpoints can be retried",
          instance |-> instance]
    ELSE IF instance.attempt_count >= definition.max_retries
    THEN [error |-> "Retry limit reached", instance |-> instance]
    ELSE [error |-> "",
          instance |-> [instance EXCEPT !.state = "offered",
                                        !.attempt_count = 0,
                                        !.last_error = None,
                                        !.failed_at = None,
                                        !.offered_at = Some(now)]]

\* A retry that looks at the limit before it looks at the state
retry_checkpoint_instance_limit_first(definition, instance, now) ==
    IF instance.attempt_count >= definition.max_retries
    THEN [error |-> "Retry limit reached", instance |-> instance]
    ELSE IF instance.state \notin {"failed", "timed_out", "skipped"}
    THEN [error |-> "Only failed, timed out, or skipped checkpoints can be retried",
          instance |-> instance]
    ELSE [error |-> "",
          instance |-> [instance EXCEPT !.state = "offered",
                                        !.last_error = None,
                                        !.failed_at = None,
                                        !.offered_at = Some(now)]]

\* A retry that offers the instance again under its old offered_at
retry_checkpoint_instance_keeps_offered_at(definition, instance, now) ==
    IF instance.state \notin {"failed", "timed_out", "skipped"}
    THEN [error |-> "Only failed, timed out, or skipped checkpoints can be retried",
          instance |-> instance]
    ELSE IF instance.attempt_count >= definition.max_retries
    THEN [error |-> "Retry limit reached", instance |-> instance]
    ELSE [error |-> "",
          instance |-> [instance EXCEPT !.state = "offered",
                                        !.last_error = None,
                                        !.failed_at = None]]

\* A retry whose two rejections raise the same message
retry_checkpoint_instance_one_error(definition, instance, now) ==
    IF instance.state \notin {"failed", "timed_out", "skipped"}
    THEN [error |-> "Checkpoint cannot be retried", instance |-> instance]
    ELSE IF instance.attempt_count >= definition.max_retries
    THEN [error |-> "Checkpoint cannot be retried", instance |-> instance]
    ELSE [error |-> "",
          instance |-> [instance EXCEPT !.state = "offered",
                                        !.last_error = None,
                                        !.failed_at = None,
                                        !.offered_at = Some(now)]]

\* A retry that puts the instance back to pending instead of offering it
retry_checkpoint_instance_to_pending(definition, instance, now) ==
    IF instance.state \notin {"failed", "timed_out", "skipped"}
    THEN [error |-> "Only failed, timed out, or skipped checkpoints can be retried",
          instance |-> instance]
    ELSE IF instance.attempt_count >= definition.max_retries
    THEN [error |-> "Retry limit reached", instance |-> instance]
    ELSE [error |-> "",
          instance |-> [instance EXCEPT !.state = "pending",
                                        !.last_error = None,
                                        !.failed_at = None,
                                        !.offered_at = Some(now)]]

\* A retry that offers the instance again with the time of the failure still on it
retry_checkpoint_instance_keeps_failed_at(definition, instance, now) ==
    IF instance.state \notin {"failed", "timed_out", "skipped"}
    THEN [error |-> "Only failed, timed out, or skipped checkpoints can be retried",
          instance |-> instance]
    ELSE IF instance.attempt_count >= definition.max_retries
    THEN [error |-> "Retry limit reached", instance |-> instance]
    ELSE [error |-> "",
          instance |-> [instance EXCEPT !.state = "offered",
                                        !.last_error = None,
                                        !.offered_at = Some(now)]]

\* retry_checkpoint_instance, after the lookup
retry_checkpoint_instance(definition, instance, now) ==
    IF instance.state \notin {"failed", "timed_out", "skipped"}
    THEN [error |-> "Only failed, timed out, or skipped checkpoints can be retried",
          instance |-> instance]
    ELSE IF instance.attempt_count >= definition.max_retries
    THEN [error |-> "Retry limit reached", instance |-> instance]
    ELSE [error |-> "",
          instance |-> [instance EXCEPT !.state = "offered",
                                        !.last_error = None,
                                        !.failed_at = None,
                                        !.offered_at = Some(now)]]

\* A timeout that turns away only what was submitted
timeout_checkpoint_instance_submitted_only(definition, instance, now) ==
    IF instance.state = "submitted"
    THEN [error |-> "Completed checkpoints cannot be timed out", instance |-> instance]
    ELSE [error |-> "",
          instance |-> [instance EXCEPT !.attempt_count = @ + 1,
                                        !.state = "timed_out",
                                        !.last_error = Some("Checkpoint timed out"),
                                        !.failed_at = Some(now)]]

\* A timeout that does not count as an attempt
timeout_checkpoint_instance_uncounted(definition, instance, now) ==
    IF instance.state \in {"submitted", "skipped", "collapsed"}
    THEN [error |-> "Completed checkpoints cannot be timed out", instance |-> instance]
    ELSE [error |-> "",
          instance |-> [instance EXCEPT !.state = "timed_out",
                                        !.last_error = Some("Checkpoint timed out"),
                                        !.failed_at = Some(now)]]

\* timeout_checkpoint_instance, after the lookup
timeout_checkpoint_instance(definition, instance, now) ==
    IF instance.state \in {"submitted", "skipped", "collapsed"}
    THEN [error |-> "Completed checkpoints cannot be timed out", instance |-> instance]
    ELSE [error |-> "",
          instance |-> [instance EXCEPT !.attempt_count = @ + 1,
                                        !.state = "timed_out",
                                        !.last_error = Some("Checkpoint timed out"),
                                        !.failed_at = Some(now)]]

\* A submit that reports the attempt_count it read before the transition
submit_task_checkpoint_stale_count(task_id, instance_id, data) ==
    IF LookupError(task_id, instance_id) # ""
    THEN Failed(LookupError(task_id, instance_id))
    ELSE
        LET definition == definitions[instances[instance_id].definition_id]
            issues == validate_submission(definition.field_schema, data)
            instance == submit_checkpoint_instance(definition, instances[instance_id],
                                                   data, Now)
            stored == [instances EXCEPT ![instance_id] = instance]
        IN IF issues # <<>>
           THEN Served([Response(422, "Checkpoint submission validation failed",
                                 0, "", issues, <<>>)
                        EXCEPT !.attempt_count = instances[instance_id].attempt_count,
                               !.max_retries = definition.max_retries,
                               !.retry_available =
                                   instances[instance_id].attempt_count
                                       < definition.max_retries],
                       definitions, stored, Now)
           ELSE Served(InstanceResponse(definition, instance), definitions, stored, Now)

\* POST /api/tasks/{task_id}/checkpoints/{instance_id}/submit
submit_task_checkpoint(task_id, instance_id, data) ==
    IF LookupError(task_id, instance_id) # ""
    THEN Failed(LookupError(task_id, instance_id))
    ELSE
        LET definition == definitions[instances[instance_id].definition_id]
            issues == validate_submission(definition.field_schema, data)
            instance == submit_checkpoint_instance(definition, instances[instance_id],
                                                   data, Now)
            stored == [instances EXCEPT ![instance_id] = instance]
        IN IF issues # <<>>
           THEN Served([Response(422, "Checkpoint submission validation failed",
                                 0, "", issues, <<>>)
                        EXCEPT !.attempt_count = instance.attempt_count,
                               !.max_retries = definition.max_retries,
                               !.retry_available =
                                   instance.attempt_count < definition.max_retries],
                       definitions, stored, Now)
           ELSE Served(InstanceResponse(definition, instance), definitions, stored, Now)

\* The shape of the skip, retry and timeout handlers: transition, commit, respond;
\* `time` is the clock after the handler
Transitioned(instance_id, result, time) ==
    IF result.error # "" THEN Failed(result.error)
    ELSE Served(InstanceResponse(definitions[result.instance.definition_id],
                                 result.instance),
                definitions,
                [instances EXCEPT ![instance_id] = result.instance],
                time)

\* POST /api/tasks/{task_id}/checkpoints/{instance_id}/skip
skip_task_checkpoint(task_id, instance_id) ==
    IF LookupError(task_id, instance_id) # ""
    THEN Failed(LookupError(task_id, instance_id))
    ELSE Transitioned(instance_id,
            skip_checkpoint_instance(definitions[instances[instance_id].definition_id],
                                     instances[instance_id]),
            clock)

\* POST /api/tasks/{task_id}/checkpoints/{instance_id}/retry
retry_task_checkpoint(task_id, instance_id) ==
    IF LookupError(task_id, instance_id) # ""
    THEN Failed(LookupError(task_id, instance_id))
    ELSE Transitioned(instance_id,
            retry_checkpoint_instance(definitions[instances[instance_id].definition_id],
                                      instances[instance_id], Now),
            Now)

\* A timeout handler that commits a counted attempt before it refuses the request
timeout_task_checkpoint_commits_refusal(task_id, instance_id) ==
    IF LookupError(task_id, instance_id) # ""
    THEN Failed(LookupError(task_id, instance_id))
    ELSE LET result ==
                 timeout_checkpoint_instance(
                     definitions[instances[instance_id].definition_id],
                     instances[instance_id], Now)
         IN IF result.error # ""
            THEN Served(ErrorResponse(result.error), definitions,
                        [instances EXCEPT ![instance_id].attempt_count = @ + 1], clock)
            ELSE Transitioned(instance_id, result, Now)

\* POST /api/tasks/{task_id}/checkpoints/{instance_id}/timeout
timeout_task_checkpoint(task_id, instance_id) ==
    IF LookupError(task_id, instance_id) # ""
    THEN Failed(LookupError(task_id, instance_id))
    ELSE Transitioned(instance_id,
            timeout_checkpoint_instance(definitions[instances[instance_id].definition_id],
                                        instances[instance_id], Now),
            Now)

-----------------------------------------------------------------------------
(* The system: every request served without interleaving *)

\* A request is served: the tables and the clock become what its handler leaves
Serve(served) ==
    /\ Cardinality(DOMAIN served.definitions) <= MaxDefs
    /\ Cardinality(DOMAIN served.instances) <= MaxInstances
    /\ served.clock <= MaxClock
    /\ definitions' = served.definitions
    /\ instances' = served.instances
    /\ clock' = served.clock
    /\ UNCHANGED <<tasks, txs>>

CreateDefinition == \E i \in 1..Len(CreateRequests) :
    Serve(create_checkpoint_definition(CreateRequests[i]))
UpdateDefinition == \E d \in DefinitionIds, i \in 1..Len(UpdateRequests) :
    Serve(update_checkpoint_definition(d, UpdateRequests[i]))
ToggleDefinition == \E d \in DefinitionIds, e \in BOOLEAN :
    Serve(toggle_checkpoint_definition(d, e))
DeleteDefinition == \E d \in DefinitionIds :
    Serve(delete_checkpoint_definition(d))
Resolve == \E t \in TaskIds, p \in CheckpointPipelinePosition :
    Serve(resolve_task_checkpoints(t, p))
GetInstance == \E t \in TaskIds, i \in InstanceIds :
    Serve(get_task_checkpoint_instance(t, i))
Submit == \E t \in TaskIds, i \in InstanceIds, k \in 1..Len(SubmitData) :
    Serve(submit_task_checkpoint(t, i, SubmitData[k]))
Skip == \E t \in TaskIds, i \in InstanceIds :
    Serve(skip_task_checkpoint(t, i))
Retry == \E t \in TaskIds, i \in InstanceIds :
    Serve(retry_task_checkpoint(t, i))
Timeout == \E t \in TaskIds, i \in InstanceIds :
    Serve(timeout_task_checkpoint(t, i))

Next ==
    \/ CreateDefinition
    \/ UpdateDefinition
    \/ ToggleDefinition
    \/ DeleteDefinition
    \/ Resolve
    \/ GetInstance
    \/ Submit
    \/ Skip
    \/ Retry
    \/ Timeout

Spec == Init /\ [][Next]_vars

-----------------------------------------------------------------------------
(* Concurrent resolution: each worker serves GET /api/tasks/{task_id}/checkpoints *)
(* in its own database transaction, and the statements of the transactions       *)
(* interleave                                                                    *)

\* What the statements of worker w read: the committed rows, and over them the rows
\* its own session has flushed
SessionView(w) ==
    [i \in DOMAIN instances \cup DOMAIN txs[w].pending |->
        IF i \in DOMAIN txs[w].pending THEN txs[w].pending[i] ELSE instances[i]]

\* The ids some row has, committed or flushed by an open session
IdsInUse == DOMAIN instances \cup UNION {DOMAIN txs[w].pending : w \in Workers}

\* resolve_checkpoints_for_task up to its loop: the task, the definitions, the time
ResolveBegin(w, task_id, pipeline_position) ==
    /\ txs[w].pc = "idle"
    /\ task_id \in DOMAIN tasks
    /\ clock < MaxClock
    /\ txs' = [txs EXCEPT ![w] =
                  [pc |-> "loop", task |-> task_id, pos |-> pipeline_position,
                   mode |-> tasks[task_id].mode,
                   defs |-> SelectDefinitions(definitions, pipeline_position),
                   idx |-> 1, now |-> Now, pending |-> <<>>, resolved |-> <<>>]]
    /\ UNCHANGED <<tasks, definitions, instances, clock>>

\* One iteration of the loop: the mode filter, the select, and the add and flush
ResolveIterate(w) ==
    LET tx == txs[w]
        definition == tx.defs[tx.idx]
        r == ResolveDefinition(SessionView(w), IdsInUse, tx.task, definition, tx.now)
    IN /\ tx.pc = "loop"
       /\ tx.idx <= Len(tx.defs)
       /\ IF ~_mode_is_applicable(definition, tx.mode)
          THEN txs' = [txs EXCEPT ![w].idx = @ + 1]
          ELSE /\ r.id \in InstanceIds
               /\ txs' = [txs EXCEPT
                    ![w].idx = @ + 1,
                    ![w].pending = IF r.write = "none" THEN @
                                   ELSE Insert(@, r.id, r.row),
                    ![w].resolved = Append(@, [definition |-> definition,
                                               instance_id |-> r.id])]
       /\ UNCHANGED <<tasks, definitions, instances, clock>>

\* The rows of worker w's session that are inserts break the unique constraint
CommitConflict(w) ==
    \E i \in DOMAIN txs[w].pending \ DOMAIN instances :
        UniqueViolation(instances, txs[w].pending[i])

\* db.commit() in resolve_task_checkpoints: the rows become visible, or the unique
\* constraint raises IntegrityError, which no handler catches, and the session is
\* rolled back
ResolveCommit(w) ==
    /\ txs[w].pc = "loop"
    /\ txs[w].idx > Len(txs[w].defs)
    /\ IF CommitConflict(w)
       THEN UNCHANGED <<instances, clock>>
       ELSE /\ instances' = SessionView(w)
            /\ clock' = IF DOMAIN txs[w].pending # {} /\ txs[w].now > clock
                        THEN txs[w].now ELSE clock
    /\ txs' = [txs EXCEPT ![w] = IdleTx]
    /\ UNCHANGED <<tasks, definitions>>

\* What resolve_task_checkpoints answers at db.commit(): the instances of the session,
\* or, when the commit raises IntegrityError, which is no ValueError and which the
\* route does not catch, the 500 of the framework
resolve_commit_response(w) ==
    IF CommitConflict(w)
    THEN Plain(500, "Internal Server Error")
    ELSE Response(200, "", txs[w].task, txs[w].pos, <<>>,
                  ResolvedCheckpoints(txs[w].resolved, SessionView(w)))

NextRace ==
    \/ CreateDefinition
    \/ \E w \in Workers, t \in TaskIds, p \in CheckpointPipelinePosition :
          ResolveBegin(w, t, p)
    \/ \E w \in Workers : ResolveIterate(w)
    \/ \E w \in Workers : ResolveCommit(w)

SpecRace == Init /\ [][NextRace]_vars

-----------------------------------------------------------------------------
(* Concurrent catalog management: each worker serves POST                    *)
(* /api/checkpoints/definitions in its own database transaction, between the *)
(* lookup of the control_type and the commit other requests are served       *)

\* The control_type column without its unique constraint
ControlTypeConflict_dropped(defs, row) == FALSE

\* unique=True on checkpoint_definitions.control_type: a row with this control_type
\* is already committed
ControlTypeConflict(defs, row) == ControlTypeTaken(defs, row.control_type)

\* The ids some definition has, committed or added to an open session
DefinitionIdsInUse ==
    DOMAIN definitions
        \cup UNION {DOMAIN txs[w].pending : w \in {v \in Workers : txs[v].pc = "create"}}

\* The definition worker w's session holds
PendingDefinition(w) == txs[w].pending[CHOOSE i \in DOMAIN txs[w].pending : TRUE]

\* create_checkpoint_definition up to db.add: the lookup of the control_type, which
\* answers 409 when a committed row has it, and the new row added to the session
CreateSelect(w, payload) ==
    /\ txs[w].pc = "idle"
    /\ IF ControlTypeTaken(definitions, payload.control_type)
       THEN UNCHANGED txs
       ELSE LET id == FreshId(DefinitionIdsInUse)
            IN txs' = [txs EXCEPT ![w] =
                          [IdleTx EXCEPT !.pc = "create",
                                         !.pending = Insert(<<>>, id,
                                                            NewDefinition(id, payload))]]
    /\ UNCHANGED <<tasks, definitions, instances, clock>>

\* What db.commit() in create_checkpoint_definition leaves: the row, or on
\* IntegrityError the rollback and 409
create_commit(w) ==
    IF ControlTypeConflict(definitions, PendingDefinition(w))
    THEN Served(Plain(409, "Duplicate checkpoint control_type"),
                definitions, instances, clock)
    ELSE Served(Plain(201, ""),
                Insert(definitions, PendingDefinition(w).id, PendingDefinition(w)),
                instances, clock)

CreateCommit(w) ==
    /\ txs[w].pc = "create"
    /\ Cardinality(DOMAIN create_commit(w).definitions) <= MaxDefs
    /\ definitions' = create_commit(w).definitions
    /\ txs' = [txs EXCEPT ![w] = IdleTx]
    /\ UNCHANGED <<tasks, instances, clock>>

NextCatalog ==
    \/ \E w \in Workers, i \in 1..Len(CreateRequests) : CreateSelect(w, CreateRequests[i])
    \/ \E w \in Workers : CreateCommit(w)
    \/ UpdateDefinition
    \/ ToggleDefinition
    \/ DeleteDefinition

SpecCatalog == Init /\ [][NextCatalog]_vars

-----------------------------------------------------------------------------
(* Concurrent lifecycle requests: each worker serves a submit or a timeout in *)
(* its own session; the select of the instance and the update at db.commit()  *)
(* are separate statements, and the statements of the sessions interleave      *)

\* The instance row worker w's session loaded
LoadedInstance(w) == txs[w].pending[CHOOSE i \in DOMAIN txs[w].pending : TRUE]

\* get_checkpoint_instance in a session of its own: the rows as the select finds them
LifeBegin(w, op, task_id, instance_id, k) ==
    /\ txs[w].pc = "idle"
    /\ LookupError(task_id, instance_id) = ""
    /\ clock < MaxClock
    /\ txs' = [txs EXCEPT ![w] =
                  [IdleTx EXCEPT
                      !.pc = op,
                      !.task = task_id,
                      !.idx = k,
                      !.defs = <<definitions[instances[instance_id].definition_id]>>,
                      !.pending = Insert(<<>>, instance_id, instances[instance_id])]]
    /\ UNCHANGED <<tasks, definitions, instances, clock>>

\* The transition the handler makes on the objects of its session
life_transition(w) ==
    IF txs[w].pc = "submit"
    THEN [error |-> "",
          instance |-> submit_checkpoint_instance(txs[w].defs[1], LoadedInstance(w),
                                                  SubmitData[txs[w].idx], Now)]
    ELSE timeout_checkpoint_instance(txs[w].defs[1], LoadedInstance(w), Now)

\* The status the handler answers with
life_status(w) ==
    IF life_transition(w).error # "" THEN _raise_value_error(life_transition(w).error)
    ELSE IF txs[w].pc = "submit"
            /\ validate_submission(txs[w].defs[1].field_schema,
                                   SubmitData[txs[w].idx]) # <<>>
    THEN 422
    ELSE 200

\* The UPDATE the session flushes at commit sets the columns the handler changed on
\* the object it loaded; every other column keeps what is committed
Flush(committed, loaded, changed) ==
    [f \in DOMAIN committed |->
        IF changed[f] # loaded[f] THEN changed[f] ELSE committed[f]]

\* db.commit() of the submit or timeout handler
LifeCommit(w) ==
    /\ txs[w].pc \in {"submit", "timeout"}
    /\ IF life_transition(w).error # ""
       THEN UNCHANGED <<instances, clock>>
       ELSE /\ Now <= MaxClock
            /\ instances' =
                  [instances EXCEPT ![LoadedInstance(w).id] =
                      Flush(@, LoadedInstance(w), life_transition(w).instance)]
            /\ clock' = Now
    /\ txs' = [txs EXCEPT ![w] = IdleTx]
    /\ UNCHANGED <<tasks, definitions>>

NextLifeRace ==
    \/ CreateDefinition
    \/ Resolve
    \/ \E w \in Workers, t \in TaskIds, i \in InstanceIds, k \in 1..Len(SubmitData) :
          LifeBegin(w, "submit", t, i, k)
    \/ \E w \in Workers, t \in TaskIds, i \in InstanceIds :
          LifeBegin(w, "timeout", t, i, 0)
    \/ \E w \in Workers : LifeCommit(w)

SpecLifeRace == Init /\ [][NextLifeRace]_vars

-----------------------------------------------------------------------------
(* The validator on its own: a catalog of one definition, whose field_schema is *)
(* any of the sample schemas, and submissions of the sample payloads            *)

BlankKeySchema == <<Field(" ", "text", TRUE, <<>>, None, None)>>
RatingSchema == <<Field("rating", "number", TRUE, <<>>, Some(PyInt(1)), Some(PyInt(7)))>>
TagsSchema ==
    << Field("tags", "chips", TRUE, <<"a", "b">>, None, None),
       Field("agree", "checkbox", TRUE, <<>>, None, None),
       Field("comment", "textarea", FALSE, <<>>, None, None) >>

\* field_schema values of a definition
SchemaSamples ==
    <<EditedTextSchema, NoteSchema, PaddedKeySchema, BlankKeySchema, RatingSchema,
      TagsSchema>>

\* CheckpointSubmitRequest.data values
PayloadSamples ==
    << <<>>,
       <<Entry("edited_text", PyStr("Revised"))>>,
       <<Entry("edited_text", PyStr("  "))>>,
       <<Entry("edited_text", PyNone)>>,
       <<Entry(" note ", PyStr("ok"))>>,
       <<Entry("note", PyStr("ok"))>>,
       <<Entry(" ", PyStr("x"))>>,
       <<Entry("rating", PyInt(9))>>,
       <<Entry("rating", PyInt(5)), Entry("extra", PyStr("x"))>>,
       <<Entry("rating", PyInt(0))>>,
       <<Entry("rating", PyBool(TRUE))>>,
       <<Entry("rating", PyFloat(7))>>,
       <<Entry("rating", PyStr("5"))>>,
       <<Entry("tags", PyList(<<>>)), Entry("agree", PyBool(FALSE))>>,
       <<Entry("tags", PyList(<<PyStr("a")>>)), Entry("agree", PyBool(TRUE))>>,
       <<Entry("tags", PyDict(<<>>)), Entry("agree", PyNone),
         Entry("comment", PyInt(3))>> >>

InitValidate ==
    /\ tasks = StudyTasks
    /\ \E k \in 1..Len(SchemaSamples) :
          definitions =
              <<NewDefinition(1, CreateRequest("summary_editor", "Summary Editor",
                                               SchemaSamples[k], "after_generation",
                                               20, <<>>, FALSE, 2))>>
    /\ instances = <<>>
    /\ clock = 0
    /\ txs = [w \in Workers |-> IdleTx]

SubmitSample == \E t \in TaskIds, i \in InstanceIds, k \in 1..Len(PayloadSamples) :
    Serve(submit_task_checkpoint(t, i, PayloadSamples[k]))

NextValidate ==
    \/ Resolve
    \/ SubmitSample

SpecValidate == InitValidate /\ [][NextValidate]_vars

-----------------------------------------------------------------------------
(* Properties *)

\* The (task, position) pairs a resolve request can name
ResolveArgs == TaskIds \X CheckpointPipelinePosition

\* The (task, instance) pairs a lifecycle request can name
InstanceArgs == TaskIds \X InstanceIds

\* What a resolve call returns: the (definition, instance) pairs, each instance with
\* its id, state and offered_at
Returned(r) ==
    [k \in 1..Len(r.resolved) |->
        [definition |-> r.resolved[k].definition,
         id |-> r.resolved[k].instance_id,
         state |-> r.db.instances[r.resolved[k].instance_id].state,
         offered_at |-> r.db.instances[r.resolved[k].instance_id].offered_at]]

\* C1. Idempotent resolution: in every reachable state, for every task and position,
\* resolve_checkpoints_for_task called twice in a row returns the same list of
\* (definition, instance) pairs the second time, with the same instance ids, states
\* and offered_at values, and the second call creates no instance.
C1_IdempotentResolution ==
    \A a \in ResolveArgs :
        LET first == resolve_checkpoints_for_task(Db, a[1], a[2])
            second == resolve_checkpoints_for_task(first.db, a[1], a[2])
        IN first.error = "" =>
              /\ second.error = ""
              /\ Returned(second) = Returned(first)
              /\ DOMAIN second.db.instances = DOMAIN first.db.instances
              /\ second.db.instances = first.db.instances

\* A task resolved at a position where two definitions apply: the first call has
\* created both instances, and the state is the one the second call is made in
C1_Witness ==
    \E a \in ResolveArgs :
        LET again == resolve_checkpoints_for_task(Db, a[1], a[2])
        IN /\ again.error = ""
           /\ Len(again.resolved) = 2
           /\ again.db.instances = instances
           /\ \A k \in 1..2 : instances[again.resolved[k].instance_id].state = "offered"

\* C2. Uniqueness: in every reachable state, resolve calls running concurrently
\* included, at most one checkpoint instance exists for a (task, definition) pair.
C2_Uniqueness ==
    \A i, j \in DOMAIN instances :
        (/\ instances[i].task_id = instances[j].task_id
         /\ instances[i].definition_id = instances[j].definition_id) => i = j

\* Two resolve calls for the same task have each created an instance for the same
\* definition; one has committed and the other is about to
C2_Witness ==
    \E w \in Workers :
        /\ txs[w].pc = "loop"
        /\ txs[w].idx > Len(txs[w].defs)
        /\ CommitConflict(w)

\* The definitions a resolve call returns
ReturnedDefinitions(r) == {r.resolved[k].definition.id : k \in 1..Len(r.resolved)}

\* C3. Mode filtering: resolve for task t at position p returns definition d exactly
\* when d is enabled, d.pipeline_position = p, and d.applicable_modes contains "*" or
\* t's mode.
C3_ModeFiltering ==
    \A a \in ResolveArgs :
        a[1] \in DOMAIN tasks =>
            LET r == resolve_checkpoints_for_task(Db, a[1], a[2])
            IN /\ r.error = ""
               /\ ReturnedDefinitions(r) \subseteq DOMAIN definitions
               /\ \A d \in DOMAIN definitions :
                     d \in ReturnedDefinitions(r) <=>
                        /\ definitions[d].enabled
                        /\ definitions[d].pipeline_position = a[2]
                        /\ \E m \in 1..Len(definitions[d].applicable_modes) :
                              definitions[d].applicable_modes[m]
                                 \in {"*", tasks[a[1]].mode}

\* A baseline task has been resolved at a position where a ["*"] definition and an
\* enabled ["hitl_r"] definition sit: it has an instance of the first and none of the
\* second, and a resolve returns only the first
C3_Witness ==
    \E t \in DOMAIN tasks, d, e \in DOMAIN definitions :
        /\ tasks[t].mode = "baseline"
        /\ definitions[d].applicable_modes = <<"*">>
        /\ definitions[e].applicable_modes = <<"hitl_r">>
        /\ definitions[d].enabled /\ definitions[e].enabled
        /\ definitions[d].pipeline_position = definitions[e].pipeline_position
        /\ \E i \in DOMAIN instances :
              instances[i].task_id = t /\ instances[i].definition_id = d
        /\ ReturnedDefinitions(resolve_checkpoints_for_task(
                                   Db, t, definitions[d].pipeline_position)) = {d}

\* C4. Required-skip invariant: for every instance whose definition is required, a
\* skip fails with the invalid-operation error, whatever the state of the instance,
\* and leaves the instance as it was.
C4_RequiredSkipFails ==
    \A a \in InstanceArgs :
        (/\ LookupError(a[1], a[2]) = ""
         /\ definitions[instances[a[2]].definition_id].required) =>
            LET served == skip_task_checkpoint(a[1], a[2])
            IN /\ served.response.status = 400
               /\ served.response.detail = "Required checkpoints cannot be skipped"
               /\ served.instances = instances

\* A submitted instance of a required definition
C4_Witness ==
    \E a \in InstanceArgs :
        /\ LookupError(a[1], a[2]) = ""
        /\ definitions[instances[a[2]].definition_id].required
        /\ instances[a[2]].state = "submitted"

\* C5. Retry exhaustion: for an instance in failed, timed_out or skipped whose
\* attempt_count has reached max_retries, a retry fails with the retry-limit error
\* and does not move the instance to offered.
C5_RetryExhaustion ==
    \A a \in InstanceArgs :
        (/\ LookupError(a[1], a[2]) = ""
         /\ instances[a[2]].state \in {"failed", "timed_out", "skipped"}
         /\ instances[a[2]].attempt_count
               >= definitions[instances[a[2]].definition_id].max_retries) =>
            LET served == retry_task_checkpoint(a[1], a[2])
            IN /\ served.response.status = 400
               /\ served.response.detail = "Retry limit reached"
               /\ served.instances = instances
               /\ served.instances[a[2]].state # "offered"

\* The example: attempt_count = 2, max_retries = 2, state = failed
C5_Witness ==
    \E a \in InstanceArgs :
        /\ LookupError(a[1], a[2]) = ""
        /\ instances[a[2]].state = "failed"
        /\ instances[a[2]].attempt_count = 2
        /\ definitions[instances[a[2]].definition_id].max_retries = 2

\* C6. attempt_count is monotone: no step of the system lowers the attempt_count of
\* an instance, and a retry that succeeds leaves it exactly as it was.
C6_AttemptCountMonotone ==
    [][/\ \A i \in DOMAIN instances :
             /\ i \in DOMAIN instances'
             /\ instances'[i].attempt_count >= instances[i].attempt_count
       /\ \A a \in InstanceArgs :
             (/\ retry_task_checkpoint(a[1], a[2]).response.status = 200
              /\ instances' = retry_task_checkpoint(a[1], a[2]).instances) =>
                 instances'[a[2]].attempt_count = instances[a[2]].attempt_count]_vars

\* An instance offered again by a retry, with the attempt that failed still counted
C6_Witness ==
    \E i \in DOMAIN instances :
        /\ instances[i].state = "offered"
        /\ instances[i].attempt_count >= 1
        /\ IsNone(instances[i].failed_at)
        /\ IsNone(instances[i].last_error)

\* The payloads a submit request can carry
SubmitArgs == InstanceArgs \X (1..Len(SubmitData))

\* The field types _validate_field_type knows
SupportedTypes ==
    {"text", "textarea", "select", "radio", "multi_select", "chips", "checkbox",
     "number", "range"}

RequiredKeys(field_schema) ==
    {field_schema[i].key : i \in {j \in 1..Len(field_schema) : field_schema[j].required}}

\* The payload has exactly the required keys of the schema, each with a value that is
\* not empty and that the type check of its field accepts
ExactlyRequired(field_schema, data) ==
    /\ \A i \in 1..Len(field_schema) : field_schema[i].type \in SupportedTypes
    /\ DataKeys(data) = RequiredKeys(field_schema)
    /\ \A i \in 1..Len(field_schema) :
          field_schema[i].required =>
             /\ ~_is_empty_value(DataGet(data, field_schema[i].key))
             /\ _validate_field_type(field_schema[i], field_schema[i].key,
                                     field_schema[i].type,
                                     DataGet(data, field_schema[i].key)) = <<>>

\* dict without one key
Without(data, key) == SelectSeq(data, LAMBDA e : e.k # key)

\* C7. Validation round-trip: for a schema of supported field types, a payload with
\* exactly the required keys and conformant values yields no issue and a submitted
\* instance, and the same payload less any one required key yields an issue and a
\* failed instance.
C7_ValidationRoundTrip ==
    \A a \in SubmitArgs :
        LET task_id == a[1][1]
            instance_id == a[1][2]
            data == SubmitData[a[2]]
        IN LookupError(task_id, instance_id) = "" =>
             LET field_schema ==
                     definitions[instances[instance_id].definition_id].field_schema
             IN ExactlyRequired(field_schema, data) =>
                  /\ validate_submission(field_schema, data) = <<>>
                  /\ submit_task_checkpoint(task_id, instance_id, data)
                        .instances[instance_id].state = "submitted"
                  /\ \A key \in RequiredKeys(field_schema) :
                        /\ validate_submission(field_schema, Without(data, key)) # <<>>
                        /\ submit_task_checkpoint(task_id, instance_id, Without(data, key))
                              .instances[instance_id].state = "failed"

\* "<key>: <message>"
IssueText(issue) == issue.key \o ": " \o issue.message

\* C8. Rejected submission transition: a submit whose data produces issues adds 1 to
\* attempt_count, makes the state failed, sets failed_at, makes last_error the
\* "<key>: <message>" issues joined by "; ", which is not empty, and leaves
\* submit_result and submitted_at alone; with the schema [edited_text textarea
\* required] and data {} a fresh instance ends failed with attempt_count 1.
C8_RejectedSubmission ==
    \A a \in SubmitArgs :
        LET task_id == a[1][1]
            instance_id == a[1][2]
            data == SubmitData[a[2]]
        IN LookupError(task_id, instance_id) = "" =>
             LET field_schema ==
                     definitions[instances[instance_id].definition_id].field_schema
                 issues == validate_submission(field_schema, data)
                 before == instances[instance_id]
                 after == submit_task_checkpoint(task_id, instance_id, data)
                             .instances[instance_id]
             IN /\ issues # <<>> =>
                     /\ after.attempt_count = before.attempt_count + 1
                     /\ after.state = "failed"
                     /\ after.failed_at = Some(Now)
                     /\ ~IsNone(after.last_error)
                     /\ Get(after.last_error) # ""
                     /\ Len(issues) = 1 =>
                           Get(after.last_error) = IssueText(issues[1])
                     /\ Len(issues) >= 2 =>
                           LET joined == IssueText(issues[1]) \o "; "
                                            \o IssueText(issues[2])
                           IN SubSeq(Get(after.last_error), 1, Len(joined)) = joined
                     /\ after.submit_result = before.submit_result
                     /\ after.submitted_at = before.submitted_at
                /\ (/\ field_schema = EditedTextSchema
                    /\ data = <<>>
                    /\ before.attempt_count = 0) =>
                     /\ after.state = "failed"
                     /\ after.attempt_count = 1
                     /\ after.last_error = Some("edited_text: This field is required")

\* The example has happened: an instance failed by its first submit, of {}
C8_Witness ==
    \E i \in DOMAIN instances :
        /\ instances[i].state = "failed"
        /\ instances[i].attempt_count = 1
        /\ instances[i].last_error = Some("edited_text: This field is required")
        /\ ~IsNone(instances[i].failed_at)
        /\ IsNone(instances[i].submit_result)

\* C9. Attempted input is stored: after a submit call, accepted or rejected, the
\* payload of the instance is the data of that call.
C9_PayloadStored ==
    \A a \in SubmitArgs :
        LET task_id == a[1][1]
            instance_id == a[1][2]
            data == SubmitData[a[2]]
        IN LookupError(task_id, instance_id) = "" =>
             submit_task_checkpoint(task_id, instance_id, data)
                .instances[instance_id].payload = Some(data)

\* C10. Accepted submission transition: a submit whose data produces no issue makes
\* submit_result that data and the state submitted, sets submitted_at, clears
\* last_error and leaves attempt_count alone.
C10_AcceptedSubmission ==
    \A a \in SubmitArgs :
        LET task_id == a[1][1]
            instance_id == a[1][2]
            data == SubmitData[a[2]]
        IN LookupError(task_id, instance_id) = "" =>
             LET field_schema ==
                     definitions[instances[instance_id].definition_id].field_schema
                 before == instances[instance_id]
                 served == submit_task_checkpoint(task_id, instance_id, data)
                 after == served.instances[instance_id]
             IN validate_submission(field_schema, data) = <<>> =>
                  /\ served.response.status = 200
                  /\ after.submit_result = Some(data)
                  /\ after.state = "submitted"
                  /\ after.submitted_at = Some(Now)
                  /\ IsNone(after.last_error)
                  /\ after.attempt_count = before.attempt_count

\* An instance whose submit was accepted after one that was rejected: the error of
\* the rejected one is gone, its attempt is still counted
C10_Witness ==
    \E i \in DOMAIN instances :
        /\ instances[i].state = "submitted"
        /\ ~IsNone(instances[i].submit_result)
        /\ Get(instances[i].submit_result) # <<>>
        /\ ~IsNone(instances[i].submitted_at)
        /\ ~IsNone(instances[i].failed_at)
        /\ instances[i].attempt_count = 1
        /\ IsNone(instances[i].last_error)

\* The states retry accepts
RetryableStates == {"failed", "timed_out", "skipped"}

\* C11. Retry precondition: a retry of an instance whose state is not failed,
\* timed_out or skipped fails with the invalid-operation error, whatever its
\* attempt_count, and leaves the instance as it was; this holds of the handler in
\* every reachable state, and of retry_checkpoint_instance for a row in each of the
\* states pending, offered, active, submitted and collapsed.
C11_RetryPrecondition ==
    \A a \in InstanceArgs :
        LookupError(a[1], a[2]) = "" =>
            LET definition == definitions[instances[a[2]].definition_id]
                served == retry_task_checkpoint(a[1], a[2])
            IN /\ instances[a[2]].state \notin RetryableStates =>
                     /\ served.response.status = 400
                     /\ served.response.detail =
                           "Only failed, timed out, or skipped checkpoints can be retried"
                     /\ served.instances = instances
               /\ \A state \in CheckpointState \ RetryableStates :
                     LET row == [instances[a[2]] EXCEPT !.state = state]
                         result == retry_checkpoint_instance(definition, row, Now)
                     IN /\ result.error =
                              "Only failed, timed out, or skipped checkpoints can be retried"
                        /\ _raise_value_error(result.error) = 400
                        /\ result.instance = row

\* A submitted instance and an offered one, each with attempts counted, one of them
\* with as many attempts as its definition has retries
C11_Witness ==
    \E i, j \in DOMAIN instances :
        /\ instances[i].state = "submitted"
        /\ instances[i].attempt_count >= 1
        /\ instances[j].state = "offered"
        /\ instances[j].attempt_count
              >= definitions[instances[j].definition_id].max_retries

\* C12. Retry success transition: a retry of an instance in failed, timed_out or
\* skipped with attempt_count < max_retries makes the state offered, clears last_error
\* and failed_at, sets offered_at to the current time, and leaves attempt_count,
\* payload, submit_result and submitted_at as they were.
C12_RetrySuccess ==
    \A a \in InstanceArgs :
        (/\ LookupError(a[1], a[2]) = ""
         /\ instances[a[2]].state \in RetryableStates
         /\ instances[a[2]].attempt_count
               < definitions[instances[a[2]].definition_id].max_retries) =>
            LET served == retry_task_checkpoint(a[1], a[2])
                before == instances[a[2]]
                after == served.instances[a[2]]
            IN /\ served.response.status = 200
               /\ served.clock = Now
               /\ after.state = "offered"
               /\ IsNone(after.last_error)
               /\ IsNone(after.failed_at)
               /\ after.offered_at = Some(Now)
               /\ after.attempt_count = before.attempt_count
               /\ after.payload = before.payload
               /\ after.submit_result = before.submit_result
               /\ after.submitted_at = before.submitted_at
               /\ \A i \in DOMAIN instances \ {a[2]} :
                     served.instances[i] = instances[i]

\* An instance a retry has offered again: offered_at is the time of the retry, later
\* than the attempt that failed
C12_Witness ==
    \E i \in DOMAIN instances :
        /\ instances[i].state = "offered"
        /\ instances[i].attempt_count = 1
        /\ instances[i].offered_at = Some(clock)
        /\ clock >= 3
        /\ IsNone(instances[i].failed_at)

\* The states timeout turns away
CompletedStates == {"submitted", "skipped", "collapsed"}

\* C13. Timeout rejection: a timeout of an instance in submitted, skipped or
\* collapsed fails with the invalid-operation error and leaves state, attempt_count,
\* last_error and failed_at as they were; this holds of the handler in every
\* reachable state, and of timeout_checkpoint_instance for a row in each of the
\* three states.
C13_TimeoutRejection ==
    \A a \in InstanceArgs :
        LookupError(a[1], a[2]) = "" =>
            LET definition == definitions[instances[a[2]].definition_id]
                served == timeout_task_checkpoint(a[1], a[2])
            IN /\ instances[a[2]].state \in CompletedStates =>
                     /\ served.response.status = 400
                     /\ served.response.detail =
                           "Completed checkpoints cannot be timed out"
                     /\ served.instances = instances
               /\ \A state \in CompletedStates :
                     LET row == [instances[a[2]] EXCEPT !.state = state]
                         result == timeout_checkpoint_instance(definition, row, Now)
                     IN /\ result.error = "Completed checkpoints cannot be timed out"
                        /\ _raise_value_error(result.error) = 400
                        /\ result.instance.state = row.state
                        /\ result.instance.attempt_count = row.attempt_count
                        /\ result.instance.last_error = row.last_error
                        /\ result.instance.failed_at = row.failed_at

\* A skipped instance and a submitted one
C13_Witness ==
    \E i, j \in DOMAIN instances :
        /\ instances[i].state = "skipped"
        /\ instances[j].state = "submitted"

\* C14. Timeout transition: a timeout of an instance in any state other than
\* submitted, skipped or collapsed adds exactly 1 to attempt_count, makes the state
\* timed_out, sets last_error to "Checkpoint timed out" and sets failed_at; this holds
\* of the handler in every reachable state, and of timeout_checkpoint_instance for a
\* row in each of the states pending, offered, active, failed and timed_out.
C14_TimeoutTransition ==
    \A a \in InstanceArgs :
        LookupError(a[1], a[2]) = "" =>
            LET definition == definitions[instances[a[2]].definition_id]
                served == timeout_task_checkpoint(a[1], a[2])
                before == instances[a[2]]
            IN /\ before.state \notin CompletedStates =>
                     /\ served.response.status = 200
                     /\ served.instances[a[2]].attempt_count = before.attempt_count + 1
                     /\ served.instances[a[2]].state = "timed_out"
                     /\ served.instances[a[2]].last_error = Some("Checkpoint timed out")
                     /\ served.instances[a[2]].failed_at = Some(Now)
               /\ \A state \in CheckpointState \ CompletedStates :
                     LET row == [before EXCEPT !.state = state]
                         result == timeout_checkpoint_instance(definition, row, Now)
                     IN /\ result.error = ""
                        /\ result.instance.attempt_count = row.attempt_count + 1
                        /\ result.instance.state = "timed_out"
                        /\ result.instance.last_error = Some("Checkpoint timed out")
                        /\ result.instance.failed_at = Some(Now)

\* An instance timed out twice over: a timeout has acted on a timed_out or failed one
C14_Witness ==
    \E i \in DOMAIN instances :
        /\ instances[i].state = "timed_out"
        /\ instances[i].attempt_count = 2
        /\ instances[i].last_error = Some("Checkpoint timed out")
        /\ instances[i].failed_at = Some(clock)

\* C15. Skip transition: a skip of an instance whose definition is not required
\* succeeds from every state, makes the state skipped, clears last_error, and leaves
\* attempt_count, submit_result, failed_at and offered_at as they were; this holds of
\* the handler in every reachable state, and of skip_checkpoint_instance for a row in
\* each state.
C15_SkipTransition ==
    \A a \in InstanceArgs :
        (/\ LookupError(a[1], a[2]) = ""
         /\ ~definitions[instances[a[2]].definition_id].required) =>
            LET definition == definitions[instances[a[2]].definition_id]
                served == skip_task_checkpoint(a[1], a[2])
                before == instances[a[2]]
                after == served.instances[a[2]]
            IN /\ served.response.status = 200
               /\ after.state = "skipped"
               /\ IsNone(after.last_error)
               /\ after.attempt_count = before.attempt_count
               /\ after.submit_result = before.submit_result
               /\ after.failed_at = before.failed_at
               /\ after.offered_at = before.offered_at
               /\ \A state \in CheckpointState :
                     LET row == [before EXCEPT !.state = state]
                         result == skip_checkpoint_instance(definition, row)
                     IN /\ result.error = ""
                        /\ result.instance =
                              [row EXCEPT !.state = "skipped", !.last_error = None]

\* An instance skipped after a submit that failed: the attempt and the time of the
\* failure are still there, the error is gone
C15_Witness ==
    \E i \in DOMAIN instances :
        /\ instances[i].state = "skipped"
        /\ instances[i].attempt_count = 1
        /\ ~IsNone(instances[i].failed_at)
        /\ IsNone(instances[i].last_error)

\* What the five instance handlers serve for a request
InstanceHandlers(task_id, instance_id) ==
    {get_task_checkpoint_instance(task_id, instance_id),
     skip_task_checkpoint(task_id, instance_id),
     retry_task_checkpoint(task_id, instance_id),
     timeout_task_checkpoint(task_id, instance_id)}
    \cup {submit_task_checkpoint(task_id, instance_id, SubmitData[k]) :
             k \in 1..Len(SubmitData)}

\* C16. Task-scoped lookup: get, submit, skip, retry and timeout called with a
\* task_id that is not the task of instance_id, or with an instance_id no instance
\* has, fail with the not-found error and change no instance; and the lookup fails
\* with the not-found error for an instance whose definition is missing.
C16_TaskScopedLookup ==
    \A a \in InstanceArgs :
        /\ (\/ a[2] \notin DOMAIN instances
            \/ instances[a[2]].task_id # a[1]) =>
              \A served \in InstanceHandlers(a[1], a[2]) :
                 /\ served.response.status = 404
                 /\ served.response.detail = "Checkpoint instance not found"
                 /\ served.instances = instances
                 /\ served.definitions = definitions
        /\ (/\ a[2] \in DOMAIN instances
            /\ instances[a[2]].task_id = a[1]) =>
              LET orphaned == [Db EXCEPT !.definitions = <<>>]
                  error == get_checkpoint_instance(orphaned, a[1], a[2])
              IN /\ error = "Checkpoint definition not found"
                 /\ _raise_value_error(error) = 404
                 /\ get_checkpoint_instance(Db, a[1], a[2]) = ""

\* Each task has an instance, so that a request can name an instance under the other
\* task, and an instance id is still free
C16_Witness ==
    /\ \E i, j \in DOMAIN instances : instances[i].task_id # instances[j].task_id
    /\ \E a \in InstanceArgs :
          /\ a[1] \in DOMAIN tasks
          /\ a[2] \in DOMAIN instances
          /\ instances[a[2]].task_id # a[1]
    /\ \E i \in InstanceIds : i \notin DOMAIN instances

\* C17. Resolve on a task id no task has fails with the not-found error and creates
\* or changes no checkpoint instance.
C17_ResolveUnknownTask ==
    \A a \in ResolveArgs :
        a[1] \notin DOMAIN tasks =>
            LET served == resolve_task_checkpoints(a[1], a[2])
                result == resolve_checkpoints_for_task(Db, a[1], a[2])
            IN /\ result.error = "Task not found"
               /\ result.db = Db
               /\ served.response.status = 404
               /\ served.response.detail = "Task not found"
               /\ served.response.checkpoints = <<>>
               /\ served.instances = instances

\* A resolve for a known task would create an instance here, and a task id names no
\* task
C17_Witness ==
    \E a \in ResolveArgs, t \in DOMAIN tasks :
        /\ a[1] \notin DOMAIN tasks
        /\ resolve_checkpoints_for_task(Db, t, a[2]).db.instances # instances
        /\ instances # <<>>

\* The definitions of a resolve call in the order it returns them
ReturnedOrder(r) == [k \in 1..Len(r.resolved) |-> r.resolved[k].definition]

\* d applies to task t at position p
Applicable(d, t, p) ==
    /\ definitions[d].enabled
    /\ definitions[d].pipeline_position = p
    /\ \E m \in 1..Len(definitions[d].applicable_modes) :
          definitions[d].applicable_modes[m] \in {"*", tasks[t].mode}

\* C18. Resolve ordering: the list a resolve returns is sorted by sort_order
\* ascending, then control_type ascending, holds each applicable definition exactly
\* once, and comes in the same order on the next call when the catalog has not
\* changed.
C18_ResolveOrdering ==
    \A a \in ResolveArgs :
        a[1] \in DOMAIN tasks =>
            LET first == resolve_checkpoints_for_task(Db, a[1], a[2])
                order == ReturnedOrder(first)
            IN /\ \A k, l \in 1..Len(order) :
                     k < l =>
                        \/ order[k].sort_order < order[l].sort_order
                        \/ /\ order[k].sort_order = order[l].sort_order
                           /\ ControlTypeRank(order[k].control_type)
                                 < ControlTypeRank(order[l].control_type)
               /\ \A d \in DOMAIN definitions :
                     Cardinality({k \in 1..Len(order) : order[k].id = d})
                        = IF Applicable(d, a[1], a[2]) THEN 1 ELSE 0
               /\ \A k \in 1..Len(order) : order[k] = definitions[order[k].id]
               /\ ReturnedOrder(resolve_checkpoints_for_task(first.db, a[1], a[2]))
                     = order

\* A task has been resolved into two instances whose definitions sort_order puts
\* against the order of their control types
C18_Witness ==
    \E a \in ResolveArgs :
        /\ a[1] \in DOMAIN tasks
        /\ LET r == resolve_checkpoints_for_task(Db, a[1], a[2])
           IN /\ Len(r.resolved) = 2
              /\ r.db.instances = instances
              /\ r.resolved[1].definition.sort_order < r.resolved[2].definition.sort_order
              /\ ControlTypeRank(r.resolved[1].definition.control_type)
                    > ControlTypeRank(r.resolved[2].definition.control_type)

\* C19. Materialization: when resolve finds no instance for an applicable (task,
\* definition) pair, it creates exactly one instance for the pair, in state offered,
\* with offered_at set, attempt_count 0, last_error, payload and submit_result
\* empty, and the control_type of the definition.
C19_Materialization ==
    \A a \in ResolveArgs :
        a[1] \in DOMAIN tasks =>
            LET r == resolve_checkpoints_for_task(Db, a[1], a[2])
                InstancesOf(table, d) ==
                    {i \in DOMAIN table : /\ table[i].task_id = a[1]
                                          /\ table[i].definition_id = d}
            IN \A d \in DOMAIN definitions :
                  (Applicable(d, a[1], a[2]) /\ InstancesOf(instances, d) = {}) =>
                     /\ Cardinality(InstancesOf(r.db.instances, d)) = 1
                     /\ \A i \in InstancesOf(r.db.instances, d) :
                           /\ r.db.instances[i].state = "offered"
                           /\ r.db.instances[i].offered_at = Some(Now)
                           /\ r.db.instances[i].attempt_count = 0
                           /\ IsNone(r.db.instances[i].last_error)
                           /\ IsNone(r.db.instances[i].payload)
                           /\ IsNone(r.db.instances[i].submit_result)
                           /\ IsNone(r.db.instances[i].failed_at)
                           /\ IsNone(r.db.instances[i].submitted_at)
                           /\ r.db.instances[i].control_type
                                 = definitions[d].control_type
                           /\ \E k \in 1..Len(r.resolved) :
                                 /\ r.resolved[k].instance_id = i
                                 /\ r.resolved[k].definition.id = d

\* A resolve has just created an instance next to one an earlier resolve created
C19_Witness ==
    \E i, j \in DOMAIN instances :
        /\ instances[i].offered_at = Some(clock)
        /\ instances[i].state = "offered"
        /\ instances[i].attempt_count = 0
        /\ instances[i].control_type = definitions[instances[i].definition_id].control_type
        /\ instances[j].task_id = instances[i].task_id
        /\ instances[j].offered_at # instances[i].offered_at

\* C20. Resolve never resets progress: an instance that exists in any state other
\* than pending comes out of a resolve with every field as it was; this holds of
\* every instance in every reachable state, and for the instance put in each of the
\* states offered, active, submitted, collapsed, skipped, failed and timed_out.
C20_ResolveKeepsProgress ==
    \A a \in ResolveArgs :
        a[1] \in DOMAIN tasks =>
            /\ LET r == resolve_checkpoints_for_task(Db, a[1], a[2])
               IN \A i \in DOMAIN instances :
                     instances[i].state # "pending" => r.db.instances[i] = instances[i]
            /\ \A i \in DOMAIN instances, state \in CheckpointState \ {"pending"} :
                  LET db == [Db EXCEPT !.instances[i].state = state]
                      r == resolve_checkpoints_for_task(db, a[1], a[2])
                  IN /\ r.db.instances[i] = db.instances[i]
                     /\ \A k \in 1..Len(r.resolved) :
                           r.resolved[k].instance_id = i =>
                              r.db.instances[i].state = state

\* An instance that failed, with its error and its attempt on record, that a resolve
\* of its task returns
C20_Witness ==
    \E a \in ResolveArgs, i \in DOMAIN instances :
        /\ a[1] \in DOMAIN tasks
        /\ instances[i].state = "failed"
        /\ instances[i].attempt_count >= 1
        /\ ~IsNone(instances[i].last_error)
        /\ LET r == resolve_checkpoints_for_task(Db, a[1], a[2])
           IN \E k \in 1..Len(r.resolved) : r.resolved[k].instance_id = i


\* C21: control_type uniqueness. Whatever creates, updates, toggles and deletes were
\* served, and however the creates interleaved, no two definitions, enabled or
\* disabled, share a control_type; a create whose control_type a definition already
\* has is answered 409 Conflict and leaves the definitions as they were, whether the
\* lookup finds the definition or the commit does.
C21_ControlTypeUnique ==
    /\ \A d1, d2 \in DOMAIN definitions :
          definitions[d1].control_type = definitions[d2].control_type => d1 = d2
    /\ \A i \in 1..Len(CreateRequests) :
          ControlTypeTaken(definitions, CreateRequests[i].control_type) =>
              /\ create_checkpoint_definition(CreateRequests[i]).response.status = 409
              /\ create_checkpoint_definition(CreateRequests[i]).definitions = definitions
    /\ \A w \in Workers :
          (/\ txs[w].pc = "create"
           /\ ControlTypeTaken(definitions, PendingDefinition(w).control_type)) =>
              /\ create_commit(w).response.status = 409
              /\ create_commit(w).definitions = definitions

\* A create passed its lookup, and before it commits another create of the same
\* control_type committed; that definition has since been disabled
C21_Witness ==
    \E w \in Workers, d \in DOMAIN definitions :
        /\ txs[w].pc = "create"
        /\ PendingDefinition(w).control_type = definitions[d].control_type
        /\ ~definitions[d].enabled
        /\ Cardinality(DOMAIN definitions) = 2

\* C22: soft delete. No request removes a definition: a delete leaves every row, with
\* enabled = FALSE on the one it names, so the ids of the definitions never become
\* fewer and the definition_id of every instance names a definition.
C22_SoftDelete ==
    [][/\ DOMAIN definitions \subseteq DOMAIN definitions'
       /\ \A i \in DOMAIN instances' :
             instances'[i].definition_id \in DOMAIN definitions'
       /\ \A d \in DOMAIN definitions :
             /\ delete_checkpoint_definition(d).response.status = 200
             /\ delete_checkpoint_definition(d).definitions
                    = [definitions EXCEPT ![d].enabled = FALSE]]_vars

\* Both definitions were deleted after each was resolved into an instance
C22_Witness ==
    /\ Cardinality(DOMAIN definitions) = 2
    /\ \A d \in DOMAIN definitions :
          /\ ~definitions[d].enabled
          /\ \E i \in DOMAIN instances : instances[i].definition_id = d

\* The columns of a definition
DefinitionFields ==
    {"id", "control_type", "label", "field_schema", "pipeline_position", "sort_order",
     "applicable_modes", "required", "timeout_seconds", "max_retries", "enabled"}

\* Update bodies: the one the model issues, bodies that set one or two fields, a body
\* that sets label to null, and the empty body
PatchSamples ==
    << UpdateRequests[1],
       [label |-> Some("Reviewer note")],
       [label |-> None],
       [required |-> Some(FALSE), enabled |-> Some(FALSE)],
       [timeout_seconds |-> Some(30)],
       [pipeline_position |-> Some("post_generation")],
       [enabled |-> Some(TRUE), applicable_modes |-> Some(<<"baseline">>)],
       <<>> >>

C24_ControlTypeSurvives ==
    [][/\ \A i \in DOMAIN instances :
             /\ i \in DOMAIN instances'
             /\ instances'[i].control_type = instances[i].control_type
       /\ \A i \in DOMAIN instances' \ DOMAIN instances :
             /\ instances'[i].definition_id \in DOMAIN definitions
             /\ instances'[i].control_type
                    = definitions[instances'[i].definition_id].control_type]_vars

\* An instance went through a counted attempt and a skip, and its definition
\* was updated and deleted: the instance still has the control_type it was created with
C24_Witness ==
    \E i \in DOMAIN instances :
        /\ instances[i].state = "skipped"
        /\ instances[i].attempt_count = 1
        /\ instances[i].control_type = "note"
        /\ definitions[instances[i].definition_id].control_type = "note"
        /\ definitions[instances[i].definition_id].field_schema = PaddedKeySchema
        /\ ~definitions[instances[i].definition_id].enabled

\* C25: the retry signal. A rejected submission reports the attempt_count the
\* instance has after the rejection, one more than before, the max_retries of the
\* definition, and retry_available = (attempt_count < max_retries); retry_available
\* is true exactly when a retry of the instance as the rejection left it succeeds.
C25_RetrySignal ==
    \A a \in SubmitArgs :
        LET task_id == a[1][1]
            instance_id == a[1][2]
            r == submit_task_checkpoint(task_id, instance_id, SubmitData[a[2]])
        IN (LookupError(task_id, instance_id) = "" /\ r.response.status = 422) =>
              LET definition == definitions[instances[instance_id].definition_id]
                  after == r.instances[instance_id]
              IN /\ r.response.attempt_count = instances[instance_id].attempt_count + 1
                 /\ r.response.attempt_count = after.attempt_count
                 /\ r.response.max_retries = definition.max_retries
                 /\ r.response.retry_available
                        = (after.attempt_count < definition.max_retries)
                 /\ r.response.retry_available
                        <=> (retry_checkpoint_instance(definition, after, r.clock + 1).error
                                = "")

\* An instance that was retried after a first counted attempt is rejected: of two
\* retries allowed, the first attempt left one and this rejection leaves none
C25_Witness ==
    \E a \in SubmitArgs :
        LET r == submit_task_checkpoint(a[1][1], a[1][2], SubmitData[a[2]])
        IN /\ LookupError(a[1][1], a[1][2]) = ""
           /\ r.response.status = 422
           /\ ~r.response.retry_available
           /\ r.response.max_retries = 2
           /\ instances[a[1][2]].state = "offered"
           /\ instances[a[1][2]].attempt_count = 1

\* The committed instances of a task and a definition
CommittedInstances(task_id, definition_id) ==
    {i \in DOMAIN instances :
        /\ instances[i].task_id = task_id
        /\ instances[i].definition_id = definition_id}

\* C26: the creation race is not fatal. When worker w's resolve is about to commit an
\* instance of a (task, definition) pair for which another resolve has committed one
\* in the meantime, w's call is answered 200, with one checkpoint per definition it
\* resolved, and for that pair it returns the id of the committed instance, the id
\* the other call returned.
C26_CreationRaceNotFatal ==
    \A w \in Workers :
        (/\ txs[w].pc = "loop"
         /\ txs[w].idx > Len(txs[w].defs)
         /\ CommitConflict(w)) =>
            LET r == resolve_commit_response(w)
            IN /\ r.status = 200
               /\ Len(r.checkpoints) = Len(txs[w].resolved)
               /\ \A k \in 1..Len(txs[w].resolved) :
                     LET committed ==
                             CommittedInstances(txs[w].task,
                                                txs[w].resolved[k].definition.id)
                     IN committed # {} => r.checkpoints[k].id \in committed

\* C27: the retry limit is told apart. The answer to a retry turned away because
\* attempt_count >= max_retries differs from the answer to a retry turned away
\* because of the state of the instance, and from every not-found answer: it is the
\* error "Retry limit reached", which no other rejection of a retry carries. This
\* holds for the requests on the instances as they are, and for the retry of every
\* instance put in each state with its attempts used up.
C27_LimitDistinct ==
    /\ \A a \in InstanceArgs :
          LET r == retry_task_checkpoint(a[1], a[2]).response
          IN IF LookupError(a[1], a[2]) # ""
             THEN r.status = 404 /\ r.detail # "Retry limit reached"
             ELSE LET instance == instances[a[2]]
                      definition == definitions[instance.definition_id]
                  IN /\ (/\ instance.state \in RetryableStates
                         /\ instance.attempt_count >= definition.max_retries) =>
                            r.status = 400 /\ r.detail = "Retry limit reached"
                     /\ instance.state \notin RetryableStates =>
                            r.status = 400 /\ r.detail # "Retry limit reached"
    /\ \A i \in DOMAIN instances :
          LET definition == definitions[instances[i].definition_id]
          IN \A s1 \in RetryableStates, s2 \in CheckpointState \ RetryableStates :
                LET limit == retry_checkpoint_instance(definition,
                                 [instances[i] EXCEPT
                                     !.state = s1,
                                     !.attempt_count = definition.max_retries], Now)
                    illegal == retry_checkpoint_instance(definition,
                                   [instances[i] EXCEPT !.state = s2], Now)
                IN /\ limit.error # ""
                   /\ illegal.error # ""
                   /\ ErrorResponse(limit.error) # ErrorResponse(illegal.error)
                   /\ \A m \in NotFoundMessages :
                         ErrorResponse(limit.error) # ErrorResponse(m)

\* One instance has used up its retries and is in a state a retry accepts, another
\* is freshly offered, a state no retry accepts
C27_Witness ==
    \E i, j \in DOMAIN instances :
        /\ instances[i].state \in RetryableStates
        /\ instances[i].attempt_count >= 1
        /\ instances[i].attempt_count
              >= definitions[instances[i].definition_id].max_retries
        /\ instances[j].state = "offered"
        /\ instances[j].attempt_count = 0

\* The step is a rejected submit of instance i, or a timeout of instance i that
\* succeeded
CountedStep(i) ==
    \E t \in TaskIds :
        \/ \E k \in 1..Len(SubmitData) :
              LET r == submit_task_checkpoint(t, i, SubmitData[k])
              IN /\ r.response.status = 422
                 /\ instances' = r.instances
                 /\ definitions' = r.definitions
                 /\ clock' = r.clock
        \/ LET r == timeout_task_checkpoint(t, i)
           IN /\ r.response.status = 200
              /\ instances' = r.instances
              /\ definitions' = r.definitions
              /\ clock' = r.clock

\* C28: attempt accounting. The attempt_count of an instance is the number of
\* rejected submits and successful timeouts it went through: it is 0 when the
\* instance is created, every rejected submit and every successful timeout adds
\* exactly one to it, and no other step, whether a resolve, an accepted submit, a
\* skip, a retry, a request that fails, or a request on another instance or on a
\* definition, changes it.
C28_AttemptAccounting ==
    /\ [](\A a \in InstanceArgs :
             LookupError(a[1], a[2]) = "" =>
                 /\ \A k \in 1..Len(SubmitData) :
                       LET r == submit_task_checkpoint(a[1], a[2], SubmitData[k])
                       IN r.response.status = 422 =>
                             r.instances[a[2]].attempt_count
                                 = instances[a[2]].attempt_count + 1
                 /\ LET r == timeout_task_checkpoint(a[1], a[2])
                    IN r.response.status = 200 =>
                          r.instances[a[2]].attempt_count
                              = instances[a[2]].attempt_count + 1)
    /\ [][\A i \in DOMAIN instances' :
             LET before == IF i \in DOMAIN instances
                           THEN instances[i].attempt_count ELSE 0
                 delta == instances'[i].attempt_count - before
             IN /\ delta \in {0, 1}
                /\ delta = 1 => CountedStep(i)]_vars

\* An instance went through two counted attempts and was then skipped
C28_Witness ==
    \E i \in DOMAIN instances :
        /\ instances[i].state = "skipped"
        /\ instances[i].attempt_count = 2
        /\ instances[i].last_error = None

\* The keys of the fields of a schema
SchemaKeys(field_schema) == {field_schema[i].key : i \in 1..Len(field_schema)}

\* How many of the issues have this key and this message
IssueCount(issues, key, message) ==
    Cardinality({i \in 1..Len(issues) :
                    issues[i].key = key /\ issues[i].message = message})

\* C29: the validator and unknown keys. For every schema and payload, the issues
\* hold exactly one "Unexpected field" for each key of the payload that is not the
\* key of a field of the schema, none for a key of the payload that is, and none for
\* anything that is not a key of the payload.
C29_UnexpectedFields ==
    \A d \in DOMAIN definitions, k \in 1..Len(PayloadSamples) :
        LET field_schema == definitions[d].field_schema
            data == PayloadSamples[k]
            issues == validate_submission(field_schema, data)
        IN /\ \A i \in 1..Len(data) :
                 IssueCount(issues, data[i].k, "Unexpected field")
                     = IF data[i].k \in SchemaKeys(field_schema) THEN 0 ELSE 1
           /\ \A i \in 1..Len(issues) :
                 issues[i].message = "Unexpected field" => issues[i].key \in DataKeys(data)

\* Empty, as the spec has it: absent or null, a string of whitespace only, or a list
\* or mapping without elements
EmptyValue(value) ==
    \/ value.t = "none"
    \/ value.t = "str" /\ Strip(value.s) = ""
    \/ value.t \in {"list", "dict"} /\ Len(value.l) = 0

\* The issues about a field: those under its key, as the schema has it or stripped,
\* as the validator reports it
FieldIssues(issues, field) ==
    SelectSeq(issues, LAMBDA e : e.key = field.key \/ e.key = Strip(field.key))

\* C30: the validator and required fields. For every schema and payload and every
\* required field of the schema: when the value the payload has under the key of the
\* field is empty, the issues about the field are exactly one, "This field is
\* required", and so none of a type check; when the value is not empty, no issue
\* about the field is "This field is required".
C30_RequiredFields ==
    \A d \in DOMAIN definitions, k \in 1..Len(PayloadSamples) :
        LET field_schema == definitions[d].field_schema
            data == PayloadSamples[k]
            issues == validate_submission(field_schema, data)
        IN \A j \in 1..Len(field_schema) :
              field_schema[j].required =>
                  LET about == FieldIssues(issues, field_schema[j])
                  IN IF EmptyValue(DataGet(data, field_schema[j].key))
                     THEN /\ Len(about) = 1
                          /\ about[1].message = "This field is required"
                     ELSE \A i \in 1..Len(about) :
                             about[i].message # "This field is required"

\* The value satisfies every bound the field sets
WithinBounds(field, value) ==
    /\ IsNone(field.min) \/ Get(field.min).n <= value.n
    /\ IsNone(field.max) \/ value.n <= Get(field.max).n

\* C31: the validator on number and range fields. For a field of type number or
\* range and a payload with a value under its key: there is no issue about the field
\* exactly when the value is an int or a float, not a boolean, within every bound
\* that is set; a boolean yields "Expected a numeric value"; a number yields one
\* issue for a violated min and one for a violated max; and for min 1, max 7 and the
\* value 9 the issues about the field are exactly "Value must be <= 7".
C31_NumberRange ==
    \A d \in DOMAIN definitions, k \in 1..Len(PayloadSamples) :
        LET field_schema == definitions[d].field_schema
            data == PayloadSamples[k]
            issues == validate_submission(field_schema, data)
        IN \A j \in 1..Len(field_schema) :
              LET field == field_schema[j]
                  value == DataGet(data, field.key)
                  about == FieldIssues(issues, field)
              IN (field.type \in {"number", "range"} /\ value.t # "none") =>
                    /\ (about = <<>>) <=> (IsNumeric(value) /\ WithinBounds(field, value))
                    /\ value.t = "bool" =>
                          about = <<ValidationIssue(field.key, "Expected a numeric value")>>
                    /\ IsNumeric(value) =>
                          Len(about)
                              = (IF ~IsNone(field.min) /\ value.n < Get(field.min).n
                                 THEN 1 ELSE 0)
                                + (IF ~IsNone(field.max) /\ value.n > Get(field.max).n
                                   THEN 1 ELSE 0)
                    /\ (/\ ~IsNone(field.min) /\ Get(field.min).n = 1
                        /\ ~IsNone(field.max) /\ Get(field.max).n = 7
                        /\ value = PyInt(9)) =>
                          about = <<ValidationIssue(field.key, "Value must be <= 7")>>

\* C32: submitted is terminal. No step takes an instance that is submitted to another
\* state or changes its submit_result, whichever request the step serves.
C32_SubmittedTerminal ==
    [][\A i \in DOMAIN instances :
          instances[i].state = "submitted" =>
              /\ i \in DOMAIN instances'
              /\ instances'[i].state = "submitted"
              /\ instances'[i].submit_result = instances[i].submit_result]_vars

\* The instance is among what the resolve returned
Resolved(r, i) == \E k \in 1..Len(r.resolved) : r.resolved[k].instance_id = i

\* C33: pending promotion. No request leaves an instance pending, so the claim is
\* checked on every instance put in state pending, once with the offered_at it has and
\* once with none: a resolve that reaches the instance makes it offered, sets
\* offered_at to the current time when there was none, keeps the offered_at that was
\* set, and changes nothing else; a resolve that does not reach it leaves it pending.
C33_PendingPromotion ==
    \A a \in ResolveArgs, i \in DOMAIN instances :
        a[1] \in DOMAIN tasks =>
            \A offered_at \in {None, instances[i].offered_at} :
                LET db == [Db EXCEPT !.instances[i].state = "pending",
                                     !.instances[i].offered_at = offered_at]
                    r == resolve_checkpoints_for_task(db, a[1], a[2])
                IN IF Resolved(r, i)
                   THEN r.db.instances[i]
                            = [db.instances[i] EXCEPT
                                  !.state = "offered",
                                  !.offered_at = IF IsNone(offered_at)
                                                 THEN Some(db.clock + 1)
                                                 ELSE offered_at]
                   ELSE r.db.instances[i] = db.instances[i]

\* An instance offered at an earlier time which, put in state pending, a later resolve
\* promotes with that earlier offered_at, while another resolve does not reach it
C33_Witness ==
    \E a, b \in ResolveArgs, i \in DOMAIN instances :
        LET db == [Db EXCEPT !.instances[i].state = "pending"]
        IN /\ a[1] \in DOMAIN tasks
           /\ b[1] \in DOMAIN tasks
           /\ instances[i].offered_at = Some(1)
           /\ clock >= 2
           /\ Resolved(resolve_checkpoints_for_task(db, a[1], a[2]), i)
           /\ resolve_checkpoints_for_task(db, a[1], a[2]).db.instances[i].offered_at
                 = Some(1)
           /\ ~Resolved(resolve_checkpoints_for_task(db, b[1], b[2]), i)

\* Worker w commits in this step a request that counts as an attempt: a rejected
\* submit or a timeout that succeeded
CommitsAttempt(w) ==
    /\ txs[w].pc \in {"submit", "timeout"}
    /\ txs'[w].pc = "idle"
    /\ life_transition(w).error = ""
    /\ life_status(w) = 422 \/ txs[w].pc = "timeout"

\* C34: a timeout never overrides an accepted submission. When submit and timeout
\* requests on one instance interleave, no step takes an instance whose submission was
\* accepted (state submitted) to timed_out, and every rejected submit and every
\* successful timeout that commits adds one to the attempt_count of the instance.
C34_TimeoutAtomic ==
    [][/\ \A i \in DOMAIN instances :
             instances[i].state = "submitted" => instances'[i].state # "timed_out"
       /\ \A w \in Workers :
             CommitsAttempt(w) =>
                 instances'[LoadedInstance(w).id].attempt_count
                     = instances[LoadedInstance(w).id].attempt_count + 1]_vars

\* The states the engine puts an instance into
EngineStates == {"offered", "submitted", "skipped", "failed", "timed_out"}

\* C35. Reachable states: after any sequence of resolve, submit, skip, retry and
\* timeout, every instance is in one of offered, submitted, skipped, failed and
\* timed_out; none is pending, active or collapsed.
C35_ReachableStates ==
    \A i \in DOMAIN instances :
        /\ instances[i].state \in EngineStates
        /\ instances[i].state \notin {"pending", "active", "collapsed"}

\* Two instances have been created by resolve and have moved on: one was skipped, the
\* other timed out
C35_Witness ==
    \E i, j \in DOMAIN instances :
        /\ instances[i].state = "skipped"
        /\ instances[j].state = "timed_out"
        /\ instances[j].attempt_count = 1

\* The validation issues of a stored submit_result against a schema
ResultIssues(field_schema, instance) ==
    validate_submission(field_schema, instance.submit_result[1])

AttemptCounts == 0..3

\* C38. Submit has no state or retry-limit precondition: for an instance in any of
\* offered, failed, timed_out, skipped and submitted, with any attempt_count, at or
\* above max_retries included, a submit with issue-free data leaves it submitted with
\* the same attempt_count and a submit with invalid data leaves it failed with one
\* more attempt; the request is answered 200 or 422, never refused.
C38_SubmitUnguarded ==
    \A a \in SubmitArgs :
        LookupError(a[1][1], a[1][2]) = "" =>
            LET i == a[1][2]
                definition == definitions[instances[i].definition_id]
                issues == validate_submission(definition.field_schema, SubmitData[a[2]])
                served == submit_task_checkpoint(a[1][1], i, SubmitData[a[2]])
            IN /\ served.response.status = IF issues = <<>> THEN 200 ELSE 422
               /\ served.instances[i].state
                     = IF issues = <<>> THEN "submitted" ELSE "failed"
               /\ served.instances[i].attempt_count
                     = instances[i].attempt_count + IF issues = <<>> THEN 0 ELSE 1
               /\ \A state \in EngineStates, n \in AttemptCounts :
                     LET row == [instances[i] EXCEPT !.state = state,
                                                     !.attempt_count = n]
                         after == submit_checkpoint_instance(definition, row,
                                                             SubmitData[a[2]], Now)
                     IN /\ after.state = IF issues = <<>> THEN "submitted" ELSE "failed"
                        /\ after.attempt_count = IF issues = <<>> THEN n ELSE n + 1

\* An instance is failed with two attempts counted under a definition that allows at
\* most one retry: attempt_count is above max_retries
C38_Witness ==
    \E i \in DOMAIN instances :
        /\ instances[i].state = "failed"
        /\ instances[i].attempt_count = 2
        /\ definitions[instances[i].definition_id].max_retries <= 1
        /\ instances[i].failed_at = Some(clock)

\* The request was refused: NotFound is 404, InvalidOperation and LimitExceeded are 400
Refused(served) == served.response.status \in {400, 404}

\* The tables after the request are the tables before it
NoEffect(served) == served.instances = instances /\ served.definitions = definitions

\* What a request that is not answered 200 may leave behind: nothing, unless it is a
\* submit answered 422, which leaves instance i failed and nothing else changed
FailurePersisted(served, i) ==
    /\ served.response.status = 422
    /\ served.definitions = definitions
    /\ DOMAIN served.instances = DOMAIN instances
    /\ served.instances[i].state = "failed"
    /\ \A j \in DOMAIN instances \ {i} : served.instances[j] = instances[j]

\* C39. Failed operations have no effect: a resolve, get, submit, skip, retry or
\* timeout request that ends with NotFound, InvalidOperation or LimitExceeded leaves
\* every instance and every definition exactly as before; the only request not
\* answered with success that changes what is stored is a submit rejected by
\* validation, which is stored as state failed.
C39_FailedNoEffect ==
    /\ \A a \in ResolveArgs :
          LET served == resolve_task_checkpoints(a[1], a[2])
          IN served.response.status # 200 => Refused(served) /\ NoEffect(served)
    /\ \A a \in InstanceArgs :
          /\ \A served \in {get_task_checkpoint_instance(a[1], a[2]),
                            skip_task_checkpoint(a[1], a[2]),
                            retry_task_checkpoint(a[1], a[2]),
                            timeout_task_checkpoint(a[1], a[2])} :
                served.response.status # 200 => Refused(served) /\ NoEffect(served)
          /\ \A k \in 1..Len(SubmitData) :
                LET served == submit_task_checkpoint(a[1], a[2], SubmitData[k])
                IN /\ Refused(served) => NoEffect(served)
                   /\ served.response.status \notin {200, 400, 404} =>
                          FailurePersisted(served, a[2])

\* A state in which each kind of failure is met: an instance stored as failed by a
\* rejected submit has used up its retries (LimitExceeded), timing out a skipped
\* instance is an InvalidOperation, and some lookup is NotFound
C39_Witness ==
    \E a, b, c \in InstanceArgs :
        /\ LookupError(a[1], a[2]) = ""
        /\ instances[a[2]].state = "failed"
        /\ retry_task_checkpoint(a[1], a[2]).response.detail = "Retry limit reached"
        /\ LookupError(b[1], b[2]) = ""
        /\ instances[b[2]].state = "skipped"
        /\ timeout_task_checkpoint(b[1], b[2]).response.status = 400
        /\ skip_task_checkpoint(c[1], c[2]).response.status = 404
====
